---- MODULE Spec2Model ----
(***************************************************************************)
(* Chat Completions response assembler of kiro.rs                          *)
(* (src/src/anthropic/openai_handlers.rs): the streaming                   *)
(* OpenAIStreamContext driven by create_openai_sse_stream, and the         *)
(* aggregated handle_openai_non_stream_request.                            *)
(*                                                                         *)
(* Encodings.  Option<T>: None is <<>>, Some(x) is <<x>>.  A String is a    *)
(* sequence of code points, each a one-element name ("U4E2D" stands for   *)
(* the CJK code point U+4E2D).  A HashMap is a function whose DOMAIN is    *)
(* the set of its keys.                                                    *)
(***************************************************************************)
EXTENDS Integers, Sequences, FiniteSets, TLC

\* ------------------------------------------------------------------ bounds

\* Frames the upstream body holds at most.
MaxFrames == 2
\* Frames that start inside one upstream body chunk, at most.
MaxChunkFrames == 2
\* Messages of a payload given to the converter, at most.
MaxMessages == 3
\* Credentials of a configuration, at most.
MaxCreds == 2
\* Calls made on the credential store, at most.
MaxOps == 2
\* Code points of a string whose tokens are estimated, at most.
MaxText == 4

\* ------------------------------------------------------- program constants

CONTEXT_WINDOW_SIZE == 200000

\* Percentages are the dyadic rationals n / PctDen, which f64 holds exactly,
\* so that n * CONTEXT_WINDOW_SIZE / (100 * PctDen) is the exact f64 value.
PctDen == 2 ^ 6

\* ------------------------------------------------------------ Option, text

None == <<>>
Some(x) == <<x>>
IsSome(o) == Len(o) = 1
UnwrapOr(o, d) == IF Len(o) = 1 THEN o[1] ELSE d

\* HashMap::new().
EmptyMap == [x \in {} |-> 0]
\* HashMap::insert.
MapInsert(m, k, v) == [x \in DOMAIN m \cup {k} |-> IF x = k THEN v ELSE m[x]]
\* HashMap::remove.
MapRemove(m, k) == [x \in DOMAIN m \ {k} |-> m[x]]

ChineseChars == {"U4E2D"}

\* str::len(): the UTF-8 byte length (3 bytes for a code point in
\* U+4E00..U+9FFF, 1 for the ASCII code points used here).
RECURSIVE ByteLen(_)
ByteLen(s) ==
    IF s = <<>> THEN 0
    ELSE (IF s[1] \in ChineseChars THEN 3 ELSE 1) + ByteLen(Tail(s))

RECURSIVE CountIn(_, _)
CountIn(s, set) ==
    IF s = <<>> THEN 0
    ELSE (IF s[1] \in set THEN 1 ELSE 0) + CountIn(Tail(s), set)

Max(a, b) == IF a >= b THEN a ELSE b
Min(a, b) == IF a <= b THEN a ELSE b

\* estimate_tokens with the other code points' quarter rounded down.
estimate_tokens_floor(text) ==
    LET chinese_count == CountIn(text, ChineseChars)
        other_count == Len(text) - chinese_count
        chinese_tokens == (chinese_count * 2 + 2) \div 3
        other_tokens == other_count \div 4
    IN  Max(chinese_tokens + other_tokens, 1)

\* estimate_tokens without its least value of 1.
estimate_tokens_sum(text) ==
    LET chinese_count == CountIn(text, ChineseChars)
        other_count == Len(text) - chinese_count
        chinese_tokens == (chinese_count * 2 + 2) \div 3
        other_tokens == (other_count + 3) \div 4
    IN  chinese_tokens + other_tokens

estimate_tokens(text) ==
    LET chinese_count == CountIn(text, ChineseChars)
        other_count == Len(text) - chinese_count
        chinese_tokens == (chinese_count * 2 + 2) \div 3
        other_tokens == (other_count + 3) \div 4
    IN  Max(chinese_tokens + other_tokens, 1)

\* `x as i32` on a finite f64 given as the exact rational num / den, den > 0:
\* truncation toward zero (the values here stay inside the i32 range).
TruncDiv(num, den) ==
    IF num >= 0 THEN num \div den ELSE -((-num) \div den)

\* The same product rounded to the nearest integer instead of cast.
ContextTokensRounded(n) ==
    (2 * n * CONTEXT_WINDOW_SIZE + 100 * PctDen) \div (2 * 100 * PctDen)

\* (percentage * (CONTEXT_WINDOW_SIZE as f64) / 100.0) as i32, for the
\* percentage n / PctDen.
ContextTokens(n) == TruncDiv(n * CONTEXT_WINDOW_SIZE, 100 * PctDen)

\* ------------------------------------------------------------------ events

ToolIds == {"t1", "t2"}
\* The upstream names a tool the same way in every event of one tool use.
ToolName(id) == IF id = "t1" THEN "f" ELSE "g"
Fragments == {<<>>, <<"x">>, <<"y">>}
Contents == {<<>>, <<"a">>}
\* 3/64 % of the window is 93.75 tokens, 800/64 % = 12.5 % is 25000.
Percentages == {3, 800}
ExceptionTypes == {"ContentLengthExceededException", "ThrottlingException"}
InputEstimates == {3, 40}

AssistantResponse(c) == [type |-> "AssistantResponse", content |-> c]
ToolUse(id, name, input, stop) ==
    [type |-> "ToolUse", tool_use_id |-> id, name |-> name, input |-> input,
     stop |-> stop]
ContextUsage(n) == [type |-> "ContextUsage", context_usage_percentage |-> n]
Exception(t) == [type |-> "Exception", exception_type |-> t]
\* Any other variant of Event (metering and the like).
OtherEvent == [type |-> "Other"]

Events ==
    {AssistantResponse(c) : c \in Contents}
    \cup {ToolUse(id, ToolName(id), i, s) : id \in ToolIds, i \in Fragments,
                                            s \in BOOLEAN}
    \cup {ContextUsage(n) : n \in Percentages}
    \cup {Exception(t) : t \in ExceptionTypes}
    \cup {OtherEvent}

\* What the upstream puts on the wire: a frame that decodes and parses into
\* an event, a frame that decodes but whose payload Event::from_frame
\* rejects, and a frame whose checksum does not match.
OkFrame(e) == [frame |-> "ok", event |-> <<e>>]
UnparsedFrame == [frame |-> "unparsed", event |-> <<>>]
BadFrame == [frame |-> "bad", event |-> <<>>]
Frames == {OkFrame(e) : e \in Events} \cup {UnparsedFrame, BadFrame}

\* The frame sequences of at most n frames.
FrameSeqs(n) == UNION {[1..m -> Frames] : m \in 0..n}

\* ----------------------------------------------------- event-stream decoder

\* The bytes of one frame, as two halves: a frame is decodable once both are
\* in the buffer, and a body chunk may end between them.
Encode(f) == <<[half |-> 1, frame |-> f], [half |-> 2, frame |-> f]>>

RECURSIVE EncodeAll(_)
EncodeAll(fs) == IF fs = <<>> THEN <<>> ELSE Encode(fs[1]) \o EncodeAll(Tail(fs))

EventStreamDecoder_new == [buffer |-> <<>>]

\* The cap of the decoder's buffer (16 MiB), in half frames: above anything
\* the frames of one response amount to.
MaxBufferSize == 2 * MaxFrames + 1

\* feed(bytes) fails with BufferOverflow.
BufferOverflow(decoder, bytes) ==
    Len(decoder.buffer) + Len(bytes) > MaxBufferSize

\* feed(bytes) with the buffer replaced, what it held forgotten.
feedOverwrite(decoder, bytes) == [decoder EXCEPT !.buffer = bytes]

\* feed(bytes): append to the buffer, unless that exceeds the cap.
feed(decoder, bytes) ==
    IF BufferOverflow(decoder, bytes) THEN decoder
    ELSE [decoder EXCEPT !.buffer = @ \o bytes]

\* decode_iter(): one Ok(frame) or Err per complete frame, in buffer order,
\* until no complete frame remains; the partial trailing frame stays.
RECURSIVE decode_iter(_)
decode_iter(decoder) ==
    LET b == decoder.buffer IN
    IF Len(b) >= 2 /\ b[1].half = 1 /\ b[2].half = 2
    THEN LET rest == decode_iter([decoder EXCEPT !.buffer = SubSeq(b, 3, Len(b))])
             item == IF b[1].frame.frame = "bad"
                     THEN [ok |-> FALSE, frame |-> b[1].frame]
                     ELSE [ok |-> TRUE, frame |-> b[1].frame]
         IN  [results |-> <<item>> \o rest.results, decoder |-> rest.decoder]
    ELSE [results |-> <<>>, decoder |-> decoder]

\* Event::from_frame(frame): Ok(event) is Some(event), Err is None.
from_frame(frame) == IF frame.frame = "ok" THEN frame.event ELSE None

\* -------------------------------------------------- OpenAIStreamContext

ResponseId == "chatcmpl-1"
Model == "gpt-4o"

OpenAIStreamContext_new(model, input_tokens) ==
    [id |-> ResponseId,
     model |-> model,
     input_tokens |-> input_tokens,
     output_tokens |-> 0,
     sent_initial_role |-> FALSE,
     current_tool_index |-> -1,
     tool_indices |-> EmptyMap,
     has_tool_use |-> FALSE,
     stop_reason |-> None,
     context_input_tokens |-> None]

ChunkDelta_default == [role |-> None, content |-> None, tool_calls |-> None]

\* A ChatCompletionChunk with its one choice (index 0) written flat.
ChatCompletionChunk(self, delta, finish_reason, usage) ==
    [id |-> self.id,
     object |-> "chat.completion.chunk",
     model |-> self.model,
     delta |-> delta,
     finish_reason |-> finish_reason,
     usage |-> usage]

Usage(prompt, completion) ==
    [prompt_tokens |-> prompt,
     completion_tokens |-> completion,
     total_tokens |-> prompt + completion]

\* The role chunk made whether it was sent or not.
generate_initial_chunk_always(self) ==
    [ctx |-> [self EXCEPT !.sent_initial_role = TRUE],
     chunk |-> Some(ChatCompletionChunk(self,
                    [role |-> Some("assistant"), content |-> Some(<<>>),
                     tool_calls |-> None],
                    None, None))]

\* generate_initial_chunk: the role chunk, once.
generate_initial_chunk(self) ==
    IF self.sent_initial_role
    THEN [ctx |-> self, chunk |-> None]
    ELSE [ctx |-> [self EXCEPT !.sent_initial_role = TRUE],
          chunk |-> Some(ChatCompletionChunk(self,
                        [role |-> Some("assistant"), content |-> Some(<<>>),
                         tool_calls |-> None],
                        None, None))]

\* A content chunk that carries a finish reason.
create_content_chunk_finished(self, content) ==
    ChatCompletionChunk(self,
        [role |-> None, content |-> Some(content), tool_calls |-> None],
        Some("stop"), None)

create_content_chunk(self, content) ==
    ChatCompletionChunk(self,
        [role |-> None, content |-> Some(content), tool_calls |-> None],
        None, None)

create_tool_start_chunk(self, index, id, name) ==
    ChatCompletionChunk(self,
        [role |-> None, content |-> None,
         tool_calls |-> Some(<<[index |-> index,
                                id |-> Some(id),
                                call_type |-> Some("function"),
                                function |-> [name |-> Some(name),
                                              arguments |-> Some(<<>>)]]>>)],
        None, None)

\* A delta chunk that always names the first tool call.
create_tool_delta_chunk_first(self, index, arguments) ==
    ChatCompletionChunk(self,
        [role |-> None, content |-> None,
         tool_calls |-> Some(<<[index |-> 0,
                                id |-> None,
                                call_type |-> None,
                                function |-> [name |-> None,
                                              arguments |-> Some(arguments)]]>>)],
        None, None)

create_tool_delta_chunk(self, index, arguments) ==
    ChatCompletionChunk(self,
        [role |-> None, content |-> None,
         tool_calls |-> Some(<<[index |-> index,
                                id |-> None,
                                call_type |-> None,
                                function |-> [name |-> None,
                                              arguments |-> Some(arguments)]]>>)],
        None, None)

\* The index taken without the increment.
NextToolIndexStale(self) == self.current_tool_index

\* self.current_tool_index += 1; let idx = self.current_tool_index;
NextToolIndex(self) == self.current_tool_index + 1

\* A start chunk for every ToolUse event, known id or not.
ToolStartAlways(self, known, idx, tool_use) ==
    <<create_tool_start_chunk(self, idx, tool_use.tool_use_id, tool_use.name)>>

\* The start chunk pushed where the id gets its index, and only there.
ToolStart(self, known, idx, tool_use) ==
    IF known THEN <<>>
    ELSE <<create_tool_start_chunk(self, idx, tool_use.tool_use_id,
                                   tool_use.name)>>

\* The ToolUse arm of process_event.
ProcessToolUse(self, tool_use) ==
    LET c1 == [self EXCEPT !.has_tool_use = TRUE]
        known == tool_use.tool_use_id \in DOMAIN c1.tool_indices
        idx == IF known THEN c1.tool_indices[tool_use.tool_use_id]
               ELSE NextToolIndex(c1)
        c2 == IF known THEN c1
              ELSE [c1 EXCEPT !.current_tool_index = idx,
                              !.tool_indices =
                                  MapInsert(@, tool_use.tool_use_id, idx)]
        start == ToolStart(c2, known, idx, tool_use)
    IN  IF tool_use.input # <<>>
        THEN LET c3 == [c2 EXCEPT !.output_tokens =
                                      @ + (ByteLen(tool_use.input) + 3) \div 4]
             IN  [ctx |-> c3,
                  chunks |-> start \o
                             <<create_tool_delta_chunk(c3, idx, tool_use.input)>>]
        ELSE [ctx |-> c2, chunks |-> start]

\* The match with the first ContextUsage reading kept against the later ones.
ProcessMatchFirstUsage(self, event) ==
    CASE event.type = "AssistantResponse" ->
            IF event.content # <<>>
            THEN LET c1 == [self EXCEPT !.output_tokens =
                                            @ + estimate_tokens(event.content)]
                 IN  [ctx |-> c1,
                      chunks |-> <<create_content_chunk(c1, event.content)>>]
            ELSE [ctx |-> self, chunks |-> <<>>]
      [] event.type = "ToolUse" -> ProcessToolUse(self, event)
      [] event.type = "ContextUsage" ->
            [ctx |-> IF IsSome(self.context_input_tokens) THEN self
                     ELSE [self EXCEPT !.context_input_tokens =
                            Some(ContextTokens(event.context_usage_percentage))],
             chunks |-> <<>>]
      [] event.type = "Exception" ->
            IF event.exception_type = "ContentLengthExceededException"
            THEN [ctx |-> [self EXCEPT !.stop_reason = Some("length")],
                  chunks |-> <<>>]
            ELSE [ctx |-> self, chunks |-> <<>>]
      [] OTHER -> [ctx |-> self, chunks |-> <<>>]

\* The match with a token charged for an Exception event.
ProcessMatchCharging(self, event) ==
    CASE event.type = "AssistantResponse" ->
            IF event.content # <<>>
            THEN LET c1 == [self EXCEPT !.output_tokens =
                                            @ + estimate_tokens(event.content)]
                 IN  [ctx |-> c1,
                      chunks |-> <<create_content_chunk(c1, event.content)>>]
            ELSE [ctx |-> self, chunks |-> <<>>]
      [] event.type = "ToolUse" -> ProcessToolUse(self, event)
      [] event.type = "ContextUsage" ->
            [ctx |-> [self EXCEPT !.context_input_tokens =
                          Some(ContextTokens(event.context_usage_percentage))],
             chunks |-> <<>>]
      [] event.type = "Exception" ->
            [ctx |-> [self EXCEPT !.output_tokens = @ + 1,
                                  !.stop_reason =
                                    IF event.exception_type
                                        = "ContentLengthExceededException"
                                    THEN Some("length") ELSE @],
             chunks |-> <<>>]
      [] OTHER -> [ctx |-> self, chunks |-> <<>>]

\* The match on the event in process_event.
ProcessMatch(self, event) ==
    CASE event.type = "AssistantResponse" ->
            IF event.content # <<>>
            THEN LET c1 == [self EXCEPT !.output_tokens =
                                            @ + estimate_tokens(event.content)]
                 IN  [ctx |-> c1,
                      chunks |-> <<create_content_chunk(c1, event.content)>>]
            ELSE [ctx |-> self, chunks |-> <<>>]
      [] event.type = "ToolUse" -> ProcessToolUse(self, event)
      [] event.type = "ContextUsage" ->
            [ctx |-> [self EXCEPT !.context_input_tokens =
                          Some(ContextTokens(event.context_usage_percentage))],
             chunks |-> <<>>]
      [] event.type = "Exception" ->
            IF event.exception_type = "ContentLengthExceededException"
            THEN [ctx |-> [self EXCEPT !.stop_reason = Some("length")],
                  chunks |-> <<>>]
            ELSE [ctx |-> self, chunks |-> <<>>]
      [] OTHER -> [ctx |-> self, chunks |-> <<>>]

\* process_event: the role chunk first if it was not sent, then the event's.
process_event(self, event) ==
    LET init == generate_initial_chunk(self)
        r == ProcessMatch(init.ctx, event)
    IN  [ctx |-> r.ctx, chunks |-> init.chunk \o r.chunks]

\* The derivation with the tool flag consulted first.
FinishReasonToolFirst(self) ==
    IF self.has_tool_use THEN "tool_calls"
    ELSE IF IsSome(self.stop_reason) THEN self.stop_reason[1]
    ELSE "stop"

\* The finish reason generate_final_chunk derives.
FinishReason(self) ==
    IF IsSome(self.stop_reason) THEN self.stop_reason[1]
    ELSE IF self.has_tool_use THEN "tool_calls"
    ELSE "stop"

generate_final_chunk(self) ==
    LET final_input_tokens == UnwrapOr(self.context_input_tokens,
                                       self.input_tokens)
    IN  ChatCompletionChunk(self, ChunkDelta_default,
                            Some(FinishReason(self)),
                            Some(Usage(final_input_tokens, self.output_tokens)))

\* chunk_to_sse_bytes, and the terminal marker "data: [DONE]\n\n".
chunk_to_sse_bytes(chunk) == [data |-> "json", chunk |-> Some(chunk)]
DoneMarker == [data |-> "[DONE]", chunk |-> None]

\* ------------------------------------- handle_openai_non_stream_request

AggregateInit ==
    [text_content |-> <<>>,
     tool_calls |-> <<>>,
     has_tool_use |-> FALSE,
     finish_reason |-> "stop",
     context_input_tokens |-> None,
     tool_json_buffers |-> EmptyMap]

ToolCall(id, name, arguments) ==
    [id |-> id, call_type |-> "function",
     function |-> [name |-> name, arguments |-> arguments]]

\* The ToolUse arm of the aggregation loop.
AggregateToolUse(st, tool_use) ==
    LET id == tool_use.tool_use_id
        old == IF id \in DOMAIN st.tool_json_buffers
               THEN st.tool_json_buffers[id]
               ELSE <<tool_use.name, <<>>>>
        entry == <<old[1], old[2] \o tool_use.input>>
        s1 == [st EXCEPT !.has_tool_use = TRUE,
                         !.tool_json_buffers = MapInsert(@, id, entry)]
    IN  IF tool_use.stop
        THEN [s1 EXCEPT !.tool_json_buffers = MapRemove(@, id),
                        !.tool_calls = Append(@, ToolCall(id, entry[1], entry[2]))]
        ELSE s1

\* The match on the event in the aggregation loop.
AggregateEvent(st, event) ==
    CASE event.type = "AssistantResponse" ->
            [st EXCEPT !.text_content = @ \o event.content]
      [] event.type = "ToolUse" -> AggregateToolUse(st, event)
      [] event.type = "ContextUsage" ->
            [st EXCEPT !.context_input_tokens =
                 Some(ContextTokens(event.context_usage_percentage))]
      [] event.type = "Exception" ->
            IF event.exception_type = "ContentLengthExceededException"
            THEN [st EXCEPT !.finish_reason = "length"]
            ELSE st
      [] OTHER -> st

\* for result in decoder.decode_iter() { ... } of the aggregated handler.
RECURSIVE AggregateLoop(_, _)
AggregateLoop(st, results) ==
    IF results = <<>> THEN st
    ELSE LET r == results[1]
             ev == IF r.ok THEN from_frame(r.frame) ELSE None
             s1 == IF IsSome(ev) THEN AggregateEvent(st, ev[1]) ELSE st
         IN  AggregateLoop(s1, Tail(results))

RECURSIVE SumToolTokens(_)
SumToolTokens(tool_calls) ==
    IF tool_calls = <<>> THEN 0
    ELSE (ByteLen(tool_calls[1].function.arguments) + 3) \div 4 + 10
         + SumToolTokens(Tail(tool_calls))

estimate_output_tokens(text, tool_calls) ==
    estimate_tokens(text) + SumToolTokens(tool_calls)

\* The finish reason the aggregated handler derives after the loop.
AggregateFinishReason(st) ==
    IF st.has_tool_use /\ st.finish_reason = "stop"
    THEN "tool_calls" ELSE st.finish_reason

\* The 200 response built from the loop's result.
ChatCompletionResponse(st, model, input_tokens) ==
    LET output_tokens == estimate_output_tokens(st.text_content, st.tool_calls)
        final_input_tokens == UnwrapOr(st.context_input_tokens, input_tokens)
    IN  [status |-> 200,
         object |-> "chat.completion",
         model |-> model,
         message |-> [role |-> "assistant",
                      content |-> IF st.text_content = <<>> THEN None
                                  ELSE Some(st.text_content),
                      tool_calls |-> IF st.tool_calls = <<>> THEN None
                                     ELSE Some(st.tool_calls)],
         finish_reason |-> Some(AggregateFinishReason(st)),
         usage |-> Some(Usage(final_input_tokens, output_tokens))]

\* The 502 answer to a failed upstream call or body read.
BadGateway ==
    [status |-> 502, object |-> "error", model |-> Model,
     message |-> [role |-> "api_error", content |-> None, tool_calls |-> None],
     finish_reason |-> None, usage |-> None]

\* The handler from the body bytes on: feed once, decode, aggregate, respond.
AggregateBody(body_bytes, model, input_tokens) ==
    LET fed == feed(EventStreamDecoder_new, body_bytes)
        st == AggregateLoop(AggregateInit, decode_iter(fed).results)
    IN  ChatCompletionResponse(st, model, input_tokens)


\* ------------------------------------------------------------ request stage

\* Text of the payload is a sequence of pieces: the converter cuts text only
\* where one piece ends ("data:", "image/", ";" and "," are pieces of their
\* own), so that no piece is ever split.
starts_with(s, prefix) ==
    Len(s) >= Len(prefix) /\ SubSeq(s, 1, Len(prefix)) = prefix

\* The index of the first piece of s equal to x, 0 when there is none.
Find(s, x) ==
    IF \E i \in 1..Len(s) : s[i] = x
    THEN CHOOSE i \in 1..Len(s) : s[i] = x /\ \A j \in 1..(i - 1) : s[j] # x
    ELSE 0

RECURSIVE Flatten(_)
\* The concatenation of the sequences of ss, in order.
Flatten(ss) == IF ss = <<>> THEN <<>> ELSE ss[1] \o Flatten(Tail(ss))

RECURSIVE Join(_, _)
\* [String]::join.
Join(parts, sep) ==
    IF parts = <<>> THEN <<>>
    ELSE IF Len(parts) = 1 THEN parts[1]
    ELSE parts[1] \o <<sep>> \o Join(Tail(parts), sep)

\* serde_json::Value::String and serde_json::Value::Array.
JsonString(s) == [kind |-> "String", str |-> s]
JsonArray(items) == [kind |-> "Array", items |-> items]

\* A message of the payload.
ChatMessage(role, content, tool_calls, tool_call_id) ==
    [role |-> role, content |-> content, tool_calls |-> tool_calls,
     tool_call_id |-> tool_call_id]

\* An item of a content list: its "type", its "text" and the "url" of its
\* "image_url", each absent or a string.
ContentPart(type, text, url) == [type |-> type, text |-> text, url |-> url]

\* serde_json::from_str on the arguments of a tool call: the object parsed,
\* as its set of members, or None for text that is no JSON.
from_str(arguments) ==
    IF arguments = "{\"q\":1}" THEN Some({<<"q", 1>>}) ELSE None

\* The blocks of the canonical request.
TextBlock(text) == [type |-> "text", text |-> text]
ImageBlock(media_type, data) ==
    [type |-> "image",
     source |-> [type |-> "base64", media_type |-> media_type, data |-> data]]
ToolUseBlock(id, name, input) ==
    [type |-> "tool_use", id |-> id, name |-> name, input |-> input]
ToolResultBlock(tool_use_id, content) ==
    [type |-> "tool_result", tool_use_id |-> tool_use_id, content |-> content]

\* A message and a system entry of the canonical request.
Message(role, content) == [role |-> role, content |-> content]
SystemMessage(text) == [text |-> text]

\* extract_text_content: the string, or the "text" strings of the list's
\* items joined by newlines; None when there is no text.
extract_text_content(content) ==
    IF content = None THEN None
    ELSE LET v == content[1] IN
         IF v.kind = "String" THEN Some(v.str)
         ELSE IF v.kind = "Array"
         THEN LET text_parts ==
                    Flatten([i \in 1..Len(v.items) |->
                                IF IsSome(v.items[i].text)
                                THEN <<v.items[i].text[1]>> ELSE <<>>])
              IN  IF text_parts = <<>> THEN None
                  ELSE Some(Join(text_parts, "\n"))
         ELSE None

\* parse_data_url with the data taken after the last comma.
parse_data_url_last(url) ==
    IF ~starts_with(url, <<"data:">>) THEN None
    ELSE LET rest == Tail(url)
             commas == {i \in 1..Len(rest) : rest[i] = ","}
         IN  IF commas = {} THEN None
             ELSE LET comma == CHOOSE i \in commas : \A j \in commas : j <= i
                      meta == SubSeq(rest, 1, comma - 1)
                      semi == Find(meta, ";")
                  IN  Some([media_type |-> IF semi # 0
                                           THEN SubSeq(meta, 1, semi - 1)
                                           ELSE meta,
                            data |-> SubSeq(rest, comma + 1, Len(rest))])

\* parse_data_url: the media type and the data of a data URL, None for a
\* URL that is none or has no comma.
parse_data_url(url) ==
    IF ~starts_with(url, <<"data:">>) THEN None
    ELSE LET rest == Tail(url)
             comma == Find(rest, ",")
         IN  IF comma = 0 THEN None
             ELSE LET meta == SubSeq(rest, 1, comma - 1)
                      semi == Find(meta, ";")
                  IN  Some([media_type |-> IF semi # 0
                                           THEN SubSeq(meta, 1, semi - 1)
                                           ELSE meta,
                            data |-> SubSeq(rest, comma + 1, Len(rest))])

\* The blocks convert_user_content makes of one item of a content list:
\* one block or none.
UserBlocks(item) ==
    IF item.type = Some("text")
    THEN IF IsSome(item.text) THEN <<TextBlock(item.text[1])>> ELSE <<>>
    ELSE IF item.type = Some("image_url")
    THEN IF /\ IsSome(item.url)
            /\ starts_with(item.url[1], <<"data:", "image/">>)
            /\ IsSome(parse_data_url(item.url[1]))
         THEN LET parsed == parse_data_url(item.url[1])[1]
              IN  <<ImageBlock(parsed.media_type, parsed.data)>>
         ELSE <<>>
    ELSE <<>>

\* convert_user_content.
convert_user_content(content) ==
    IF content = None THEN JsonString(<<>>)
    ELSE LET v == content[1] IN
         IF v.kind = "String" THEN JsonString(v.str)
         ELSE IF v.kind = "Array"
         THEN LET anthropic_blocks ==
                    Flatten([i \in 1..Len(v.items) |-> UserBlocks(v.items[i])])
              IN  IF anthropic_blocks = <<>> THEN JsonString(<<>>)
                  ELSE JsonArray(anthropic_blocks)
         ELSE JsonString(<<>>)

\* The blocks convert_assistant_content collects: the text when there is
\* some, then one tool_use block per tool call.
AssistantBlocks(msg) ==
    LET content == extract_text_content(msg.content)
        text_blocks ==
            IF IsSome(content) /\ content[1] # <<>>
            THEN <<TextBlock(content[1])>> ELSE <<>>
        tool_calls == UnwrapOr(msg.tool_calls, <<>>)
        tool_blocks ==
            [i \in 1..Len(tool_calls) |->
                ToolUseBlock(
                    tool_calls[i].id, tool_calls[i].function.name,
                    UnwrapOr(from_str(tool_calls[i].function.arguments), {}))]
    IN  text_blocks \o tool_blocks

\* convert_assistant_content with a lone block of any type taken for text.
convert_assistant_content_lone(msg) ==
    LET blocks == AssistantBlocks(msg) IN
    IF blocks = <<>> THEN JsonString(<<>>)
    ELSE IF Len(blocks) = 1
    THEN JsonString(IF blocks[1].type = "text" THEN blocks[1].text ELSE <<>>)
    ELSE JsonArray(blocks)

\* convert_assistant_content.
convert_assistant_content(msg) ==
    LET blocks == AssistantBlocks(msg) IN
    IF blocks = <<>> THEN JsonString(<<>>)
    ELSE IF Len(blocks) = 1 /\ blocks[1].type = "text"
    THEN JsonString(blocks[1].text)
    ELSE JsonArray(blocks)

\* The tool arm with every tool result put into a user message of its own.
PushToolResultFresh(messages, tool_result) ==
    Append(messages, Message("user", JsonArray(<<tool_result>>)))

\* The tool arm of the loop, once the tool_result block is built: the block
\* goes into the last message when that is a user message, whose string
\* content becomes a text block first, and into a new user message otherwise.
PushToolResult(messages, tool_result) ==
    IF messages # <<>> /\ messages[Len(messages)].role = "user"
    THEN LET last_msg == messages[Len(messages)] IN
         [messages EXCEPT ![Len(messages)].content =
            IF last_msg.content.kind = "Array"
            THEN JsonArray(Append(last_msg.content.items, tool_result))
            ELSE JsonArray(<<TextBlock(last_msg.content.str), tool_result>>)]
    ELSE Append(messages, Message("user", JsonArray(<<tool_result>>)))

RECURSIVE ConvertMessagesAnyRole(_, _)
\* The loop with a message of an unknown role taken for a user message.
ConvertMessagesAnyRole(messages, rest) ==
    IF rest = <<>> THEN messages
    ELSE LET msg == rest[1] IN
         ConvertMessagesAnyRole(
            IF msg.role = "assistant"
            THEN Append(messages,
                        Message("assistant", convert_assistant_content(msg)))
            ELSE IF msg.role = "tool"
            THEN IF IsSome(msg.tool_call_id)
                 THEN PushToolResult(
                        messages,
                        ToolResultBlock(
                            msg.tool_call_id[1],
                            UnwrapOr(extract_text_content(msg.content), <<>>)))
                 ELSE messages
            ELSE IF msg.role = "system" THEN messages
            ELSE Append(messages,
                        Message("user", convert_user_content(msg.content))),
            Tail(rest))

RECURSIVE ConvertMessages(_, _)
\* The loop of convert_openai_to_anthropic over the payload's messages: the
\* messages built so far, then the rest of the payload's.
ConvertMessages(messages, rest) ==
    IF rest = <<>> THEN messages
    ELSE LET msg == rest[1] IN
         ConvertMessages(
            IF msg.role = "user"
            THEN Append(messages,
                        Message("user", convert_user_content(msg.content)))
            ELSE IF msg.role = "assistant"
            THEN Append(messages,
                        Message("assistant", convert_assistant_content(msg)))
            ELSE IF msg.role = "tool" /\ IsSome(msg.tool_call_id)
            THEN PushToolResult(
                    messages,
                    ToolResultBlock(
                        msg.tool_call_id[1],
                        UnwrapOr(extract_text_content(msg.content), <<>>)))
            ELSE messages,
            Tail(rest))

\* The system arm with an entry for every system message, text or not.
SystemMessagesAll(msgs) ==
    Flatten([i \in 1..Len(msgs) |->
                IF msgs[i].role = "system"
                THEN <<SystemMessage(
                        UnwrapOr(extract_text_content(msgs[i].content), <<>>))>>
                ELSE <<>>])

\* The system arm of the loop: one entry per system message that has text.
SystemMessages(msgs) ==
    Flatten([i \in 1..Len(msgs) |->
                IF /\ msgs[i].role = "system"
                   /\ IsSome(extract_text_content(msgs[i].content))
                THEN <<SystemMessage(extract_text_content(msgs[i].content)[1])>>
                ELSE <<>>])

convert_openai_to_anthropic(req) ==
    LET system_messages == SystemMessages(req.messages) IN
    [model |-> req.model,
     messages |-> ConvertMessages(<<>>, req.messages),
     system |-> IF system_messages = <<>> THEN None
                ELSE Some(system_messages)]

\* ----- payloads

\* Image URLs: inline PNG data, the same with a comma in the data and with
\* a parameter before base64; a remote URL; inline data that is no image;
\* and a data URL cut before its comma.
DataPng == <<"data:", "image/", "png", ";", "base64", ",", "AAAA">>
DataComma == <<"data:", "image/", "gif", ";", "base64", ",", "AA", ",", "BB">>
DataParam ==
    <<"data:", "image/", "png", ";", "charset=x", ";", "base64", ",", "AAAA">>
RemoteUrl == <<"https://", "example.com/a.png">>
DataText == <<"data:", "text/", "plain", ";", "base64", ",", "AAAA">>
DataCut == <<"data:", "image/", "png", ";", "base64">>

TextPart(text) == ContentPart(Some("text"), Some(text), None)
ImagePart(url) == ContentPart(Some("image_url"), None, Some(url))

SystemMsg == ChatMessage("system", Some(JsonString(<<"be brief">>)), None, None)
UserMsg == ChatMessage("user", Some(JsonString(<<"hi">>)), None, None)

SystemMsgs ==
    {SystemMsg,
     ChatMessage("system", None, None, None)}
UserMsgs ==
    {UserMsg,
     ChatMessage("user",
                 Some(JsonArray(<<TextPart(<<"look">>), ImagePart(DataPng),
                                  ImagePart(RemoteUrl), ImagePart(DataComma)>>)),
                 None, None),
     ChatMessage("user", Some(JsonArray(<<ImagePart(RemoteUrl)>>)), None, None),
     ChatMessage("user",
                 Some(JsonArray(<<ImagePart(DataText), ImagePart(DataCut),
                                  ImagePart(DataParam)>>)),
                 None, None)}
ToolCallLists ==
    {None,
     Some(<<ToolCall("call_1", "search", "{\"q\":1}")>>),
     Some(<<ToolCall("call_1", "search", "{\"q\":1}"),
            ToolCall("call_2", "fetch", "no json")>>)}
AssistantMsgs ==
    {ChatMessage("assistant", content, tool_calls, None) :
        content \in {None, Some(JsonString(<<"ok">>))}, tool_calls \in ToolCallLists}
ToolMsgs ==
    {ChatMessage("tool", Some(JsonString(<<"r1">>)), None, Some("call_1")),
     ChatMessage("tool",
                 Some(JsonArray(<<TextPart(<<"r2">>), TextPart(<<"more">>)>>)),
                 None, Some("call_2")),
     ChatMessage("tool", Some(JsonString(<<"r3">>)), None, None)}
OtherMsgs == {ChatMessage("developer", Some(JsonString(<<"x">>)), None, None)}

ChatMessages ==
    SystemMsgs \cup UserMsgs \cup AssistantMsgs \cup ToolMsgs \cup OtherMsgs

\* The message lists of the payloads converted: every list of at most
\* MaxMessages messages.
Payloads ==
    UNION {[1..n -> ChatMessages] : n \in 0..MaxMessages}

\* The Chat Completions payloads the handler is given: the model string and
\* the messages.
Requests ==
    [model : {Model, "unknown-model"},
     messages : {<<>>, <<SystemMsg>>, <<SystemMsg, UserMsg>>}]

\* The model strings the upstream request can be built for.
KnownModels == {Model}

\* convert_request(req): "ok", or the ConversionError.
convert_request(req) ==
    IF req.model \notin KnownModels THEN "UnsupportedModel"
    ELSE IF req.messages = <<>> THEN "EmptyMessages"
    ELSE "ok"

\* The 400 answer to a request that does not convert.
BadRequest(e) ==
    [status |-> 400,
     error |-> [message |-> IF e = "UnsupportedModel"
                            THEN "Model not supported"
                            ELSE "Messages list is empty",
                type |-> "invalid_request_error",
                code |-> "invalid_request_error"]]

\* The request passes even when it does not convert.
CallAllowedAlways(req) == TRUE

\* The handler goes on to the upstream call: the request converts.
CallAllowed(req) == convert_request(convert_openai_to_anthropic(req)) = "ok"

\* What provider.call_api / call_api_stream returns: a response ("ok") or
\* the error the dispatcher gave up with.
CallErrors == {"NoCredentialsAvailable", "UpstreamAuth", "UpstreamTransient"}
CallResults == {"ok"} \cup CallErrors

\* The answer to a failed upstream call, whatever the error.
UpstreamCallFailed(e) ==
    [status |-> 502,
     error |-> [message |-> "Upstream API call failed",
                type |-> "api_error", code |-> "api_error"]]

\* ------------------------------------------------------------- credentials

\* The letters of the auth methods, in upper and in lower case.
UpperCase == <<"A", "B", "C", "D", "E", "I", "L", "M", "R", "U">>
LowerCase == <<"a", "b", "c", "d", "e", "i", "l", "m", "r", "u">>

\* u8::to_ascii_lowercase on one character.
to_ascii_lowercase(ch) ==
    IF \E i \in 1..Len(UpperCase) : UpperCase[i] = ch
    THEN LowerCase[CHOOSE i \in 1..Len(UpperCase) : UpperCase[i] = ch]
    ELSE ch

\* str::eq_ignore_ascii_case; a string is the sequence of its characters.
eq_ignore_ascii_case(a, b) ==
    /\ Len(a) = Len(b)
    /\ \A i \in 1..Len(a) : to_ascii_lowercase(a[i]) = to_ascii_lowercase(b[i])

BuilderId == <<"b", "u", "i", "l", "d", "e", "r", "-", "i", "d">>
Iam == <<"i", "a", "m">>
Idc == <<"i", "d", "c">>

\* canonicalize_auth_method_value comparing the value as it is written.
canonicalize_auth_method_value_exact(value) ==
    IF value = BuilderId \/ value = Iam THEN Idc ELSE value

canonicalize_auth_method_value(value) ==
    IF eq_ignore_ascii_case(value, BuilderId) \/ eq_ignore_ascii_case(value, Iam)
    THEN Idc
    ELSE value

\* A credential: its id (absent until one is assigned), its priority and
\* its auth method (absent or a string).
KiroCredentials(id, priority, auth_method) ==
    [id |-> id, priority |-> priority, auth_method |-> auth_method]

\* KiroCredentials::canonicalize_auth_method.
canonicalize_auth_method(cred) ==
    IF cred.auth_method = None THEN cred
    ELSE [cred EXCEPT
            !.auth_method = Some(canonicalize_auth_method_value(@[1]))]

\* The two shapes of CredentialsConfig.
Single(cred) == [kind |-> "Single", creds |-> <<cred>>]
Multiple(creds) == [kind |-> "Multiple", creds |-> creds]

RECURSIVE sort_by_key(_)
\* slice::sort_by_key on the priority: a stable sort, credentials of one
\* priority keep the order they came in.
sort_by_key(creds) ==
    IF creds = <<>> THEN <<>>
    ELSE LET n == Len(creds)
             front == sort_by_key(SubSeq(creds, 1, n - 1))
             k == Cardinality({i \in 1..(n - 1) :
                                front[i].priority <= creds[n].priority})
         IN  SubSeq(front, 1, k) \o <<creds[n]>> \o SubSeq(front, k + 1, n - 1)

\* CredentialsConfig::into_sorted_credentials.
into_sorted_credentials(config) ==
    IF config.kind = "Single"
    THEN <<canonicalize_auth_method(config.creds[1])>>
    ELSE LET creds == sort_by_key(config.creds)
         IN  [i \in 1..Len(creds) |-> canonicalize_auth_method(creds[i])]

\* ----- the credential store

\* The store file is absent (None) or holds the rows of its credentials
\* table, a set of credentials whose ids are present and differ: id is the
\* table's INTEGER PRIMARY KEY. The ids and priorities here stay far inside
\* the ranges of i64 and u32, where the casts of the two functions below
\* change nothing.

\* ORDER BY priority ASC, id ASC.
RowBefore(r, q) ==
    \/ r.priority < q.priority
    \/ r.priority = q.priority /\ r.id[1] < q.id[1]

RECURSIVE OrderedRows(_)
OrderedRows(rows) ==
    IF rows = {} THEN <<>>
    ELSE LET first == CHOOSE r \in rows :
                        \A q \in rows \ {r} : RowBefore(r, q)
         IN  <<first>> \o OrderedRows(rows \ {first})

\* load_credentials_from_sqlite on a store that exists.
load_credentials_from_sqlite(rows) == OrderedRows(rows)

RECURSIVE InsertRows(_, _)
\* The INSERT statements for credentials, in order, into the rows: a
\* credential without an id gets the row id after the largest one there (1
\* in an empty table), and an id that is there already fails the statement.
InsertRows(rows, credentials) ==
    IF credentials = <<>> THEN [ok |-> TRUE, rows |-> rows]
    ELSE LET cred == credentials[1]
             ids == {r.id[1] : r \in rows}
             rowid == IF IsSome(cred.id) THEN cred.id[1]
                      ELSE IF ids = {} THEN 1
                      ELSE (CHOOSE i \in ids : \A j \in ids : j <= i) + 1
         IN  IF rowid \in ids THEN [ok |-> FALSE, rows |-> rows]
             ELSE InsertRows(rows \cup {[cred EXCEPT !.id = Some(rowid)]},
                             Tail(credentials))

\* persist_credentials_to_sqlite into the rows left in place.
persist_credentials_to_sqlite_keep(store, credentials) ==
    LET tx == InsertRows(UnwrapOr(store, {}), credentials)
    IN  [ok |-> tx.ok,
         store |-> Some(IF tx.ok THEN tx.rows ELSE UnwrapOr(store, {}))]

\* persist_credentials_to_sqlite without its transaction: a statement that
\* fails leaves the rows deleted and those inserted before it in place.
persist_credentials_to_sqlite_partial(store, credentials) ==
    LET tx == InsertRows({}, credentials)
    IN  [ok |-> tx.ok, store |-> Some(tx.rows)]

\* persist_credentials_to_sqlite: the store is opened (created empty when
\* absent), then in one transaction every row is deleted and the credentials
\* are inserted; a statement that fails returns the error and the
\* transaction is rolled back.
persist_credentials_to_sqlite(store, credentials) ==
    LET tx == InsertRows({}, credentials)
    IN  [ok |-> tx.ok,
         store |-> Some(IF tx.ok THEN tx.rows ELSE UnwrapOr(store, {}))]

\* try_migrate_legacy_json: legacy is what credentials.json holds, None for
\* a file that is absent or blank. The credentials migrated (or None), and
\* the store afterwards; a persist that fails is only logged.
try_migrate_legacy_json(store, legacy) ==
    IF legacy = None THEN [credentials |-> None, store |-> store]
    ELSE LET sorted_creds == into_sorted_credentials(legacy[1])
             credentials ==
                [i \in 1..Len(sorted_creds) |->
                    canonicalize_auth_method(sorted_creds[i])]
         IN  [credentials |-> Some(credentials),
              store |->
                persist_credentials_to_sqlite(store, credentials).store]

\* CredentialsConfig::load on the path of a store: the configuration
\* loaded, and the store afterwards.
CredentialsConfig_load(store, legacy) ==
    IF store = None
    THEN LET migrated == try_migrate_legacy_json(store, legacy)
         IN  IF IsSome(migrated.credentials)
             THEN [config |-> Multiple(migrated.credentials[1]),
                   store |-> migrated.store]
             ELSE [config |-> Multiple(<<>>), store |-> store]
    ELSE [config |-> Multiple(load_credentials_from_sqlite(store[1])),
          store |-> store]

\* ----- credentials given to the functions above

AuthMethods ==
    {None, Some(Iam), Some(<<"I", "A", "M">>),
     Some(<<"B", "u", "i", "l", "d", "e", "r", "-", "I", "d">>),
     Some(Idc), Some(<<"s", "o", "c", "i", "a", "l">>)}

CredentialSet ==
    {KiroCredentials(id, priority, auth_method) :
        id \in {None, Some(1), Some(2)}, priority \in {0, 1},
        auth_method \in AuthMethods}

\* The configurations sorted: one credential, or a list of at most MaxCreds.
Configs ==
    {Single(c) : c \in CredentialSet}
    \cup {Multiple(cs) : cs \in UNION {[1..n -> CredentialSet] : n \in 0..MaxCreds}}

\* The configurations stored: the credentials with one of two auth methods.
StoredSet == {c \in CredentialSet : c.auth_method \in {None, Some(<<"I", "A", "M">>)}}
StoredConfigs ==
    {Single(c) : c \in StoredSet}
    \cup {Multiple(cs) : cs \in UNION {[1..n -> StoredSet] : n \in 0..MaxCreds}}

\* What the store file holds to begin with: absent, or one row.
Stores == {None, Some({KiroCredentials(Some(1), 1, Some(Idc))})}

\* -------------------------------------------------------- token estimates

\* The strings estimated: at most MaxText code points, each the Chinese one
\* or an ASCII letter.
CodePoints == ChineseChars \cup {"a"}
Strings == UNION {[1..n -> CodePoints] : n \in 0..MaxText}

\* ------------------------------------------------------------- proxy URLs

\* A proxy URL as it is written: "relative" has no scheme at all
\* (not-a-valid-url), "opaque" has its scheme and a colon but no "//" after
\* it, "hier" is scheme://[userinfo@]host[:port][path][#fragment]. The user
\* name and the password are sequences of pieces, a piece being a character
\* or a percent escape; the port is the digits written, or None.
WrittenUrl(form, scheme, userinfo, host, port, path, fragment) ==
    [form |-> form, scheme |-> scheme, userinfo |-> userinfo, host |-> host,
     port |-> port, path |-> path, fragment |-> fragment]
Userinfo(username, password) == [username |-> username, password |-> password]

\* The schemes the url crate calls special, and their default ports.
SpecialSchemes == {"http", "https", "ws", "wss", "ftp", "file"}
default_port(scheme) ==
    CASE scheme \in {"http", "ws"} -> Some(80)
      [] scheme \in {"https", "wss"} -> Some(443)
      [] scheme = "ftp" -> Some(21)
      [] OTHER -> None

\* The number a port's digits stand for, and the digits of a number.
PortDigits ==
    <<"80", "443", "1080", "01080", "65536">>
PortNumbers ==
    <<80, 443, 1080, 1080, 65536>>
PortValue(digits) ==
    PortNumbers[CHOOSE i \in 1..Len(PortDigits) : PortDigits[i] = digits]
PortText(n) ==
    PortDigits[CHOOSE i \in 1..Len(PortDigits) :
                /\ PortNumbers[i] = n
                /\ \A j \in 1..(i - 1) : PortNumbers[j] # n]

\* The characters of a user name or a password that Url::parse writes as a
\* percent escape, and what urlencoding::decode makes of an escape: a
\* character, or a byte that is no UTF-8 text.
UserinfoEscapes == [c \in {"^"} |-> "%5E"]
EscapeChars == [e \in {"%40", "%5E"} |-> IF e = "%40" THEN "@" ELSE "^"]
BadEscapes == {"%FF"}
UserinfoEncode(s) ==
    [i \in 1..Len(s) |->
        IF s[i] \in DOMAIN UserinfoEscapes THEN UserinfoEscapes[s[i]] ELSE s[i]]

\* urlencoding::decode(s): the escapes replaced by their characters, or the
\* error when the bytes they give are no UTF-8 text.
urlencoding_decode(s) ==
    IF \E i \in 1..Len(s) : s[i] \in BadEscapes
    THEN [ok |-> FALSE, value |-> <<>>]
    ELSE [ok |-> TRUE,
          value |-> [i \in 1..Len(s) |->
                        IF s[i] \in DOMAIN EscapeChars THEN EscapeChars[s[i]]
                        ELSE s[i]]]

\* decode(..).map(into_owned).unwrap_or_else(the string as it is).
DecodeOrKeep(s) ==
    LET d == urlencoding_decode(s) IN IF d.ok THEN d.value ELSE s

\* Url::parse(proxy_url), as far as parse_proxy_url reads its result: a URL
\* without scheme is an error; a scheme that is not special followed by no
\* "//" gives a URL without host; a special scheme takes its authority with
\* or without the slashes; a port beyond 65535 is an error, and a port that
\* is the default one of the scheme is dropped, port() giving None for it.
Url_parse(w) ==
    IF w.form = "relative" THEN [ok |-> FALSE, err |-> "RelativeUrlWithoutBase"]
    ELSE IF w.form = "opaque" /\ w.scheme \notin SpecialSchemes
    THEN [ok |-> TRUE, scheme |-> w.scheme, username |-> <<>>,
          password |-> None, host |-> None, port |-> None]
    ELSE IF IsSome(w.port) /\ PortValue(w.port[1]) > 65535
    THEN [ok |-> FALSE, err |-> "InvalidPort"]
    ELSE [ok |-> TRUE,
          scheme |-> w.scheme,
          username |-> IF IsSome(w.userinfo)
                       THEN UserinfoEncode(w.userinfo[1].username) ELSE <<>>,
          password |-> IF IsSome(w.userinfo) /\ IsSome(w.userinfo[1].password)
                       THEN Some(UserinfoEncode(w.userinfo[1].password[1]))
                       ELSE None,
          host |-> Some(w.host),
          port |-> IF /\ IsSome(w.port)
                      /\ Some(PortValue(w.port[1])) # default_port(w.scheme)
                   THEN Some(PortValue(w.port[1])) ELSE None]

ProxySchemes == {"http", "https", "socks5", "socks"}

\* ProxyConfig, and the Err of anyhow.
ProxyConfig(url, username, password) ==
    [ok |-> TRUE, url |-> url, username |-> username, password |-> password]
ProxyError(err) == [ok |-> FALSE, err |-> err]

\* format!("{}://{}:{}", scheme, host, port), as the pieces of the string.
CleanUrl(scheme, host, port) == <<scheme, "://", host, ":", PortText(port)>>

parse_proxy_url(proxy_url) ==
    LET parsed == Url_parse(proxy_url) IN
    IF ~parsed.ok THEN ProxyError(parsed.err)
    ELSE IF parsed.scheme \notin ProxySchemes THEN ProxyError("scheme")
    ELSE IF parsed.host = None THEN ProxyError("host")
    ELSE IF parsed.port = None THEN ProxyError("port")
    ELSE ProxyConfig(
            CleanUrl(parsed.scheme, parsed.host[1], parsed.port[1]),
            IF parsed.username # <<>>
            THEN Some(DecodeOrKeep(parsed.username)) ELSE None,
            IF IsSome(parsed.password)
            THEN Some(DecodeOrKeep(parsed.password[1])) ELSE None)

\* ----- proxy URLs given to parse_proxy_url

UrlSchemes == ProxySchemes \cup {"ftp"}
UrlHosts == {"127.0.0.1", "proxy.example.com"}
UrlUsers == {<<"u">>, <<"u", "%40", "^">>, <<"%FF", "%40">>}
UrlPasswords == {None, Some(<<"p">>), Some(<<"p", "%40", "s">>)}
UrlUserinfos ==
    {None} \cup {Some(Userinfo(u, p)) : u \in UrlUsers, p \in UrlPasswords}
UrlPorts == {None} \cup {Some(PortDigits[i]) : i \in 1..Len(PortDigits)}
ProxyUrls ==
    {WrittenUrl("relative", "", None, "not-a-valid-url", None, "", None)}
    \cup {WrittenUrl(form, scheme, userinfo, host, port, path, fragment) :
            form \in {"opaque", "hier"}, scheme \in UrlSchemes,
            userinfo \in UrlUserinfos, host \in UrlHosts, port \in UrlPorts,
            path \in {"", "/x"}, fragment \in {None, Some("webshare-us")}}

\* ------------------------------------------- credential pool and dispatcher

\* Credentials in the pool, and requests in flight at the same time.
NumCreds == 4
NumTasks == 2
CredIds == 1..NumCreds
Tasks == 1..NumTasks

\* Attempts the dispatcher makes per outbound call.
MaxAttempts == 3
\* Consecutive auth failures at which a credential is disabled.
FailureThreshold == 3

\* What the pool holds of a credential: the fields of its status item, the
\* expiry as whether the access token is valid now (now + skew < expires_at).
CredentialStatusItem(id, priority, disabled, failure_count, token_valid) ==
    [id |-> id, priority |-> priority, disabled |-> disabled,
     failure_count |-> failure_count, token_valid |-> token_valid]

\* The priorities of the pool: by id, all equal, or against the ids.
PriorityProfiles ==
    {[c \in CredIds |-> c - 1], [c \in CredIds |-> 0],
     [c \in CredIds |-> NumCreds - c]}

\* Credential a is tried before b: lower priority value, then lower id.
Before(a, b) ==
    a.priority < b.priority \/ (a.priority = b.priority /\ a.id < b.id)

RECURSIVE SelectScan(_, _, _, _)
\* The scan of select over the credentials c.., best being the pick so far
\* (0: none yet) and skip the ones this call has given up.
SelectScan(p, skip, c, best) ==
    IF c > NumCreds THEN best
    ELSE SelectScan(p, skip, c + 1,
            IF p[c].disabled \/ c \in skip THEN best
            ELSE IF best = 0 THEN c
            ELSE IF Before(p[c], p[best]) THEN c ELSE best)

\* select with the disabled flag ignored.
selectAny(p, skip) ==
    SelectScan([c \in CredIds |-> [p[c] EXCEPT !.disabled = FALSE]], skip, 1, 0)

\* select(): the credential the pool yields, 0 when none is left.
select(p, skip) == SelectScan(p, skip, 1, 0)

\* An auth failure that disables one failure early.
ReportFailureEarly(p, c) ==
    [p EXCEPT ![c].failure_count = @ + 1,
              ![c].disabled = @ \/ p[c].failure_count + 1 >= FailureThreshold - 1]

\* The pool told of an auth-attributed failure of credential c.
ReportFailure(p, c) ==
    [p EXCEPT ![c].failure_count = @ + 1,
              ![c].disabled = @ \/ p[c].failure_count + 1 >= FailureThreshold]

\* A success that leaves the failure count as it is.
ReportSuccessKeep(p, c) == p

\* The pool told of a successful call with credential c.
ReportSuccess(p, c) == [p EXCEPT ![c].failure_count = 0]

\* The retry budget never used up.
BudgetLeftAlways(attempts) == TRUE

\* The dispatcher may try again after this many attempts.
BudgetLeft(attempts) == attempts < MaxAttempts

\* The refresh call made whatever the re-read token says.
StillStaleAlways(p, c) == TRUE

\* The token re-read under the gate is still stale.
StillStale(p, c) == ~p[c].token_valid

\* One outbound call of the dispatcher, before its first step.
NewTask ==
    [pc |-> "start", cred |-> 0, tried |-> {}, attempts |-> 0,
     outcome |-> "none", result |-> "none"]

\* What the upstream answers to one attempt: 2xx, 401/403, 5xx or network,
\* another 4xx.
Outcomes == {"success", "auth", "transient", "client"}

VARIABLES
    pool,           \* the pool's credentials, by id
    gate,           \* per credential, the task holding its refresh gate, or 0
    tasks,          \* per task, its outbound call: pc "idle" (no call),
                    \* "start" (to select), "gate" (waiting to refresh),
                    \* "refresh" (refresh call in flight), "send" (request in
                    \* flight) or "done"
    refresh_calls,  \* per credential, the outbound refresh calls made for it
    refresh_fails   \* per credential, those of them that failed

pool_vars == <<pool, gate, tasks, refresh_calls, refresh_fails>>

\* ------------------------------------- state of the functions looked at alone

VARIABLES
    converted,      \* what convert_openai_to_anthropic returned for the
                    \* request, or None before the call
    config,         \* the CredentialsConfig at hand: the one sorted, and
                    \* the one whose credentials are persisted
    sorted,         \* what into_sorted_credentials(config) returned, or None
    legacy,         \* what the legacy credentials.json holds, None when the
                    \* file is absent or blank
    store,          \* the store file: None when absent, else its rows
    loaded,         \* the configuration the latest CredentialsConfig::load
                    \* returned, or None
    trace,          \* the calls made on the store so far, in order:
                    \* "persist", "persist_err" (a persist that failed),
                    \* "load", "migrate" (a load that read the legacy file)
    texts,          \* the two strings whose tokens are estimated
    estimates,      \* the estimates made so far, for texts in order
    raw_url,        \* the proxy URL given to parse_proxy_url
    proxy_config    \* what parse_proxy_url returned for it, or None

conv_vars == <<converted>>
cred_vars == <<config, sorted>>
store_vars == <<legacy, store, loaded, trace>>
token_vars == <<texts, estimates>>
proxy_vars == <<raw_url, proxy_config>>
lib_vars == <<conv_vars, cred_vars, store_vars, token_vars, proxy_vars>>

\* Each group of them while its functions are not looked at.
ConvAtRest == converted = None
CredAtRest == config = Multiple(<<>>) /\ sorted = None
StoreAtRest == legacy = None /\ store = None /\ loaded = None /\ trace = <<>>
TokenAtRest == texts = <<<<>>, <<>>>> /\ estimates = <<>>
ProxyAtRest ==
    /\ raw_url = WrittenUrl("relative", "", None, "not-a-valid-url", None, "", None)
    /\ proxy_config = None

\* No function is looked at alone.
LibAtRest ==
    ConvAtRest /\ CredAtRest /\ StoreAtRest /\ TokenAtRest /\ ProxyAtRest
\* ------------------------------------------------------------ state machine

VARIABLES
    request,    \* the payload: its model and its messages
    call,       \* the upstream call: "none" before it, then its result
    stream,     \* payload.stream: the request asks for a streamed response
    input_est,  \* the request-based prompt estimate (count_all_tokens)
    body,       \* the frame bytes of the upstream body the decoder has been
                \* fed so far, in order
    upstream,   \* the upstream body: "open", "eof" (ended) or "error" (read failed)
    ctx,        \* the stream's OpenAIStreamContext
    decoder,    \* the stream's EventStreamDecoder
    finished,   \* the unfold state's finished flag
    step,       \* the branch the stream's latest unfold step took: "chunk",
                \* "overflow" (a chunk the decoder refused), "error", "end"
                \* or "ping" ("none" before the first)
    decoded,    \* the results the stream's decoder has yielded, in order
    out,        \* the items the SSE stream has yielded, in order
    origin,     \* per item of out: the index in the body of the frame it was
                \* produced for (0 for the final chunk and the marker)
    resp        \* the handler's JSON response (the aggregated one, or an
                \* error), or None

vars == <<request, call, stream, input_est, body, upstream, ctx, decoder,
          finished, step, decoded, out, origin, resp,
          pool, gate, tasks, refresh_calls, refresh_fails,
          converted, config, sorted, legacy, store, loaded, trace,
          texts, estimates, raw_url, proxy_config>>

\* The pool at rest, while one response is looked at.
PoolAtRest ==
    /\ pool = [c \in CredIds |-> CredentialStatusItem(c, 0, FALSE, 0, TRUE)]
    /\ gate = [c \in CredIds |-> 0]
    /\ tasks = [t \in Tasks |-> NewTask]
    /\ refresh_calls = [c \in CredIds |-> 0]
    /\ refresh_fails = [c \in CredIds |-> 0]

\* The payload has arrived at post_chat_completions, whose state holds a
\* provider.
Init ==
    /\ request \in Requests
    /\ call = "none"
    /\ stream \in BOOLEAN
    /\ input_est \in InputEstimates
    /\ body = <<>>
    /\ upstream = "open"
    /\ ctx = OpenAIStreamContext_new(Model, input_est)
    /\ decoder = EventStreamDecoder_new
    /\ finished = FALSE
    /\ step = "none"
    /\ decoded = <<>>
    /\ out = <<>>
    /\ origin = <<>>
    /\ resp = None
    /\ PoolAtRest
    /\ LibAtRest

\* Frames of the body started so far.
Started(sent) == (Len(sent) + 1) \div 2

\* The bytes the upstream sends next: the rest of a half-sent frame, then the
\* frames fs, the last of them only half when cut.
NextBytes(sent, fs, cut) ==
    LET all == (IF Len(sent) % 2 = 0 THEN <<>>
                ELSE <<[half |-> 2, frame |-> sent[Len(sent)].frame]>>)
               \o EncodeAll(fs)
    IN  IF cut THEN SubSeq(all, 1, Len(all) - 1) ELSE all

\* The new chunks put in front of the collected ones.
ExtendFront(chunks, more) == more \o chunks

\* chunks.extend(more)
Extend(chunks, more) == chunks \o more

\* Each chunk paired with the index k of the frame it was produced for.
Tagged(chunks, k) == [i \in 1..Len(chunks) |-> [chunk |-> chunks[i], frame |-> k]]

RECURSIVE StreamLoopStopOnError(_, _, _, _)
\* The loop left at the first result that is not an event.
StreamLoopStopOnError(self, chunks, results, k) ==
    IF results = <<>> THEN [ctx |-> self, chunks |-> chunks]
    ELSE LET r == results[1]
             ev == IF r.ok THEN from_frame(r.frame) ELSE None
         IN  IF ~IsSome(ev) THEN [ctx |-> self, chunks |-> chunks]
             ELSE LET p == process_event(self, ev[1])
                  IN  StreamLoopStopOnError(
                          p.ctx, Extend(chunks, Tagged(p.chunks, k)),
                          Tail(results), k + 1)

\* for result in decoder.decode_iter() { ... chunks.extend(process_event) }
\* of the stream, from the chunks collected so far; k is the index in the
\* body of the first result's frame.
RECURSIVE StreamLoop(_, _, _, _)
StreamLoop(self, chunks, results, k) ==
    IF results = <<>> THEN [ctx |-> self, chunks |-> chunks]
    ELSE LET r == results[1]
             ev == IF r.ok THEN from_frame(r.frame) ELSE None
             p == IF IsSome(ev) THEN process_event(self, ev[1])
                  ELSE [ctx |-> self, chunks |-> <<>>]
         IN  StreamLoop(p.ctx, Extend(chunks, Tagged(p.chunks, k)),
                        Tail(results), k + 1)

\* chunks.into_iter().map(chunk_to_sse_bytes)
SseBytes(tagged) == [i \in 1..Len(tagged) |-> chunk_to_sse_bytes(tagged[i].chunk)]
Origins(tagged) == [i \in 1..Len(tagged) |-> tagged[i].frame]

\* The stream's output after the items of one more unfold step.
Emit(sofar, items) == sofar \o items

\* post_chat_completions: convert_request fails and the handler returns.
RejectRequest ==
    /\ call = "none" /\ resp = None
    /\ ~CallAllowed(request)
    /\ resp' = Some(BadRequest(
                    convert_request(convert_openai_to_anthropic(request))))
    /\ UNCHANGED <<request, call, stream, input_est, body, upstream, ctx,
                   decoder, finished, step, decoded, out, origin>>
    /\ UNCHANGED <<pool_vars, lib_vars>>

\* provider.call_api / call_api_stream of the two handlers returns.
CallApi ==
    /\ call = "none" /\ resp = None
    /\ CallAllowed(request)
    /\ \E r \in CallResults :
        /\ call' = r
        /\ resp' = IF r = "ok" THEN resp ELSE Some(UpstreamCallFailed(r))
    /\ UNCHANGED <<request, stream, input_est, body, upstream, ctx, decoder,
                   finished, step, decoded, out, origin>>
    /\ UNCHANGED <<pool_vars, lib_vars>>

\* body_stream.next() = Some(Ok(chunk)).
OnChunk ==
    /\ call = "ok"
    /\ stream /\ ~finished
    /\ upstream = "open"
    /\ \E fs \in FrameSeqs(Min(MaxChunkFrames, MaxFrames - Started(body))),
          cut \in BOOLEAN :
        /\ cut => fs # <<>>
        /\ NextBytes(body, fs, cut) # <<>>
        /\ LET chunk == NextBytes(body, fs, cut)
               it == decode_iter(feed(decoder, chunk))
               r == StreamLoop(ctx, <<>>, it.results, Len(body) \div 2 + 1)
           IN  /\ body' = body \o chunk
               /\ decoder' = it.decoder
               /\ decoded' = decoded \o it.results
               /\ ctx' = r.ctx
               /\ out' = Emit(out, SseBytes(r.chunks))
               /\ origin' = Emit(origin, Origins(r.chunks))
    /\ step' = "chunk"
    /\ UNCHANGED <<request, call, stream, input_est, upstream, finished, resp>>
    /\ UNCHANGED <<pool_vars, lib_vars>>

\* A chunk of more bytes than the decoder's buffer can take.
OversizedChunk == [i \in 1..(MaxBufferSize + 1) |-> [half |-> 0, frame |-> BadFrame]]

\* body_stream.next() = Some(Ok(chunk)) with a chunk that feed refuses.
OnOverflow ==
    /\ call = "ok"
    /\ stream /\ ~finished
    /\ upstream = "open"
    /\ BufferOverflow(decoder, OversizedChunk)
    /\ LET it == decode_iter(feed(decoder, OversizedChunk))
           r == StreamLoop(ctx, <<>>, it.results, Len(body) \div 2 + 1)
       IN  /\ decoder' = it.decoder
           /\ decoded' = decoded \o it.results
           /\ ctx' = r.ctx
           /\ out' = Emit(out, SseBytes(r.chunks))
           /\ origin' = Emit(origin, Origins(r.chunks))
    /\ step' = "overflow"
    /\ UNCHANGED <<request, call, stream, input_est, body, upstream, finished,
                   resp>>
    /\ UNCHANGED <<pool_vars, lib_vars>>

\* Closing with the marker alone.
ClosingMarkerOnly(self) == <<DoneMarker>>

\* The two items that close the stream.
Closing(self) == <<chunk_to_sse_bytes(generate_final_chunk(self)), DoneMarker>>

\* body_stream.next() = Some(Err(e)).
OnReadError ==
    /\ call = "ok"
    /\ stream /\ ~finished
    /\ upstream = "open"
    /\ upstream' = "error"
    /\ out' = Emit(out, Closing(ctx))
    /\ origin' = Emit(origin, [i \in 1..Len(Closing(ctx)) |-> 0])
    /\ finished' = TRUE
    /\ step' = "error"
    /\ UNCHANGED <<request, call, stream, input_est, body, ctx, decoder,
                   decoded, resp>>
    /\ UNCHANGED <<pool_vars, lib_vars>>

\* body_stream.next() = None.
OnEnd ==
    /\ call = "ok"
    /\ stream /\ ~finished
    /\ upstream = "open"
    /\ upstream' = "eof"
    /\ out' = Emit(out, Closing(ctx))
    /\ origin' = Emit(origin, [i \in 1..Len(Closing(ctx)) |-> 0])
    /\ finished' = TRUE
    /\ step' = "end"
    /\ UNCHANGED <<request, call, stream, input_est, body, ctx, decoder,
                   decoded, resp>>
    /\ UNCHANGED <<pool_vars, lib_vars>>

\* A tick that yields a keep-alive item.
PingItemsComment == <<[data |-> ": ping", chunk |-> None]>>

\* What a tick of the ping interval yields.
PingItems == <<>>

\* ping_interval.tick().
OnPing ==
    /\ call = "ok"
    /\ stream /\ ~finished
    /\ step' = "ping"
    /\ out' = Emit(out, PingItems)
    /\ origin' = Emit(origin, [i \in 1..Len(PingItems) |-> 0])
    /\ UNCHANGED <<request, call, stream, input_est, body, upstream, ctx,
                   decoder, finished, decoded, resp>>
    /\ UNCHANGED <<pool_vars, lib_vars>>

\* handle_openai_non_stream_request, response.bytes() = Ok(body_bytes).
NonStreamRequest ==
    /\ call = "ok"
    /\ ~stream
    /\ resp = None
    /\ \E fs \in FrameSeqs(MaxFrames), cut \in BOOLEAN :
        /\ cut => fs # <<>>
        /\ body' = NextBytes(<<>>, fs, cut)
        /\ resp' = Some(AggregateBody(body', Model, input_est))
    /\ upstream' = "eof"
    /\ UNCHANGED <<request, call, stream, input_est, ctx, decoder, finished,
                   step, decoded, out, origin>>
    /\ UNCHANGED <<pool_vars, lib_vars>>

\* handle_openai_non_stream_request, response.bytes() = Err(e).
NonStreamReadError ==
    /\ call = "ok"
    /\ ~stream
    /\ resp = None
    /\ upstream' = "error"
    /\ resp' = Some(BadGateway)
    /\ UNCHANGED <<request, call, stream, input_est, body, ctx, decoder,
                   finished, step, decoded, out, origin>>
    /\ UNCHANGED <<pool_vars, lib_vars>>

Next ==
    \/ RejectRequest
    \/ CallApi
    \/ OnChunk
    \/ OnOverflow
    \/ OnReadError
    \/ OnEnd
    \/ OnPing
    \/ NonStreamRequest
    \/ NonStreamReadError

Spec == Init /\ [][Next]_vars


\* ----------------------------------------------- pool and dispatcher steps

\* The handler's variables, at rest while the pool is looked at.
handler_vars ==
    <<request, call, stream, input_est, body, upstream, ctx, decoder,
      finished, step, decoded, out, origin, resp>>

\* The pool and the calls made at the same time: either one call and every
\* credential enabled, or every call and the credentials after the second
\* disabled by the administrator. The first credential may be one failure
\* short of the threshold, and the tokens are all valid or all expired.
PoolInit ==
    /\ \E prio \in PriorityProfiles, fc \in {0, FailureThreshold - 1},
          fresh \in BOOLEAN, wide \in BOOLEAN :
        /\ pool = [c \in CredIds |->
                    CredentialStatusItem(c, prio[c], ~wide /\ c > 2,
                                         IF c = 1 THEN fc ELSE 0, fresh)]
        /\ tasks = [t \in Tasks |->
                    IF wide /\ t > 1 THEN [NewTask EXCEPT !.pc = "idle"]
                    ELSE NewTask]
    /\ gate = [c \in CredIds |-> 0]
    /\ refresh_calls = [c \in CredIds |-> 0]
    /\ refresh_fails = [c \in CredIds |-> 0]
    /\ request = [model |-> Model, messages |-> <<SystemMsg, UserMsg>>]
    /\ call = "none"
    /\ stream = FALSE
    /\ input_est = 3
    /\ body = <<>>
    /\ upstream = "open"
    /\ ctx = OpenAIStreamContext_new(Model, input_est)
    /\ decoder = EventStreamDecoder_new
    /\ finished = FALSE
    /\ step = "none"
    /\ decoded = <<>>
    /\ out = <<>>
    /\ origin = <<>>
    /\ resp = None
    /\ LibAtRest

\* The call of task t ends with this result.
Finish(t, result) == [tasks EXCEPT ![t].pc = "done", ![t].result = result]

\* The dispatcher asks the pool for a credential: the pool selects among the
\* credentials this call has not given up; one with a valid token is
\* returned at once, one with an expired token sends the task to its gate.
Acquire(t) ==
    /\ tasks[t].pc = "start"
    /\ LET c == select(pool, tasks[t].tried) IN
        tasks' = IF c = 0 THEN Finish(t, "NoCredentialsAvailable")
                 ELSE [tasks EXCEPT
                         ![t].cred = c,
                         ![t].pc = IF pool[c].token_valid THEN "send" ELSE "gate"]
    /\ UNCHANGED <<pool, gate, refresh_calls, refresh_fails>>
    /\ UNCHANGED <<handler_vars, lib_vars>>

\* The task gets the gate of its credential and re-reads the token: fresh,
\* it leaves the gate at once; still stale, it makes the refresh call.
EnterGate(t) ==
    /\ tasks[t].pc = "gate"
    /\ LET c == tasks[t].cred IN
        /\ gate[c] = 0
        /\ IF StillStale(pool, c)
           THEN /\ gate' = [gate EXCEPT ![c] = t]
                /\ refresh_calls' = [refresh_calls EXCEPT ![c] = @ + 1]
                /\ tasks' = [tasks EXCEPT ![t].pc = "refresh"]
           ELSE /\ tasks' = [tasks EXCEPT ![t].pc = "send",
                                          ![t].outcome = "fresh"]
                /\ UNCHANGED <<gate, refresh_calls>>
    /\ UNCHANGED <<pool, refresh_fails>>
    /\ UNCHANGED <<handler_vars, lib_vars>>

\* The refresh call returns: the new token is stored, or the failure is
\* counted against the credential and the pool moves on to the next one.
RefreshReturns(t) ==
    /\ tasks[t].pc = "refresh"
    /\ LET c == tasks[t].cred IN
        /\ gate' = [gate EXCEPT ![c] = 0]
        /\ \E ok \in BOOLEAN :
            IF ok
            THEN /\ pool' = [pool EXCEPT ![c].token_valid = TRUE]
                 /\ tasks' = [tasks EXCEPT ![t].pc = "send"]
                 /\ UNCHANGED refresh_fails
            ELSE /\ pool' = ReportFailure(pool, c)
                 /\ refresh_fails' = [refresh_fails EXCEPT ![c] = @ + 1]
                 /\ tasks' = [tasks EXCEPT ![t].pc = "start",
                                           ![t].outcome = "refresh",
                                           ![t].tried = @ \cup {c}]
    /\ UNCHANGED refresh_calls
    /\ UNCHANGED <<handler_vars, lib_vars>>

\* The upstream answers the attempt of task t, and the dispatcher reports
\* to the pool and returns or tries the next credential.
Respond(t) ==
    /\ tasks[t].pc = "send"
    /\ \E o \in Outcomes :
        LET c == tasks[t].cred
            n == tasks[t].attempts + 1
            tried == [tasks EXCEPT ![t].attempts = n, ![t].outcome = o,
                                   ![t].tried = @ \cup {c}]
        IN  /\ pool' = IF o = "success" THEN ReportSuccess(pool, c)
                       ELSE IF o = "auth" THEN ReportFailure(pool, c)
                       ELSE pool
            /\ tasks' =
                 IF o = "success" THEN [tried EXCEPT ![t].pc = "done",
                                                     ![t].result = "ok"]
                 ELSE IF o = "client"
                 THEN [tried EXCEPT ![t].pc = "done",
                                    ![t].result = "UpstreamClient"]
                 ELSE IF BudgetLeft(n) THEN [tried EXCEPT ![t].pc = "start"]
                 ELSE [tried EXCEPT ![t].pc = "done",
                                    ![t].result = IF o = "auth" THEN "UpstreamAuth"
                                                  ELSE "UpstreamTransient"]
    /\ UNCHANGED <<gate, refresh_calls, refresh_fails>>
    /\ UNCHANGED <<handler_vars, lib_vars>>

PoolNext ==
    \/ \E t \in Tasks : Acquire(t)
    \/ \E t \in Tasks : EnterGate(t)
    \/ \E t \in Tasks : RefreshReturns(t)
    \/ \E t \in Tasks : Respond(t)

PoolSpec == PoolInit /\ [][PoolNext]_vars

\* ------------------------------------------------ the functions looked at alone

\* The handler at rest on the payload req.
HandlerAtRest(req) ==
    /\ request = req
    /\ call = "none"
    /\ stream = FALSE
    /\ input_est = 3
    /\ body = <<>>
    /\ upstream = "open"
    /\ ctx = OpenAIStreamContext_new(Model, input_est)
    /\ decoder = EventStreamDecoder_new
    /\ finished = FALSE
    /\ step = "none"
    /\ decoded = <<>>
    /\ out = <<>>
    /\ origin = <<>>
    /\ resp = None

\* ----- convert_openai_to_anthropic

ConvertInit ==
    /\ \E messages \in Payloads :
        HandlerAtRest([model |-> Model, messages |-> messages])
    /\ PoolAtRest
    /\ LibAtRest

\* convert_openai_to_anthropic(&payload).
Convert ==
    /\ converted = None
    /\ converted' = Some(convert_openai_to_anthropic(request))
    /\ UNCHANGED <<handler_vars, pool_vars, cred_vars, store_vars, token_vars,
                   proxy_vars>>

ConvertNext == Convert

ConvertSpec == ConvertInit /\ [][ConvertNext]_vars

\* ----- into_sorted_credentials

CredInit ==
    /\ HandlerAtRest([model |-> Model, messages |-> <<SystemMsg, UserMsg>>])
    /\ PoolAtRest
    /\ ConvAtRest /\ StoreAtRest /\ TokenAtRest /\ ProxyAtRest
    /\ config \in Configs
    /\ sorted = None

\* config.into_sorted_credentials().
IntoSorted ==
    /\ sorted = None
    /\ sorted' = Some(into_sorted_credentials(config))
    /\ UNCHANGED <<handler_vars, pool_vars, conv_vars, config, store_vars,
                   token_vars, proxy_vars>>

CredNext == IntoSorted

CredSpec == CredInit /\ [][CredNext]_vars

\* ----- the credential store and the legacy file

StoreInit ==
    /\ HandlerAtRest([model |-> Model, messages |-> <<SystemMsg, UserMsg>>])
    /\ PoolAtRest
    /\ ConvAtRest /\ TokenAtRest /\ ProxyAtRest
    /\ config \in StoredConfigs
    /\ sorted = None
    /\ legacy \in {None, Some(config)}
    /\ store \in Stores
    /\ loaded = None
    /\ trace = <<>>

\* persist_credentials_to_sqlite(path, &credentials) with the credentials
\* of config.
Persist ==
    /\ Len(trace) < MaxOps
    /\ LET done == persist_credentials_to_sqlite(store, config.creds) IN
        /\ store' = done.store
        /\ trace' = Append(trace, IF done.ok THEN "persist" ELSE "persist_err")
    /\ UNCHANGED <<handler_vars, pool_vars, conv_vars, cred_vars, legacy,
                   loaded, token_vars, proxy_vars>>

\* CredentialsConfig::load(path).
Load ==
    /\ Len(trace) < MaxOps
    /\ LET done == CredentialsConfig_load(store, legacy) IN
        /\ loaded' = Some(done.config)
        /\ store' = done.store
    /\ trace' = Append(trace, IF store = None /\ legacy # None
                              THEN "migrate" ELSE "load")
    /\ UNCHANGED <<handler_vars, pool_vars, conv_vars, cred_vars, legacy,
                   token_vars, proxy_vars>>

StoreNext == Persist \/ Load

StoreSpec == StoreInit /\ [][StoreNext]_vars

\* ----- estimate_tokens

TokenInit ==
    /\ HandlerAtRest([model |-> Model, messages |-> <<SystemMsg, UserMsg>>])
    /\ PoolAtRest
    /\ ConvAtRest /\ CredAtRest /\ StoreAtRest /\ ProxyAtRest
    /\ texts \in Strings \X Strings
    /\ estimates = <<>>

\* estimate_tokens(text) for the next of the two strings.
Estimate ==
    /\ Len(estimates) < Len(texts)
    /\ estimates' = Append(estimates, estimate_tokens(texts[Len(estimates) + 1]))
    /\ UNCHANGED <<handler_vars, pool_vars, conv_vars, cred_vars, store_vars,
                   texts, proxy_vars>>

TokenNext == Estimate

TokenSpec == TokenInit /\ [][TokenNext]_vars

\* ----- parse_proxy_url

ProxyInit ==
    /\ HandlerAtRest([model |-> Model, messages |-> <<SystemMsg, UserMsg>>])
    /\ PoolAtRest
    /\ ConvAtRest /\ CredAtRest /\ StoreAtRest /\ TokenAtRest
    /\ raw_url \in ProxyUrls
    /\ proxy_config = None

\* parse_proxy_url(raw_url).
ParseProxy ==
    /\ proxy_config = None
    /\ proxy_config' = Some(parse_proxy_url(raw_url))
    /\ UNCHANGED <<handler_vars, pool_vars, conv_vars, cred_vars, store_vars,
                   token_vars, raw_url>>

ProxyNext == ParseProxy

ProxySpec == ProxyInit /\ [][ProxyNext]_vars
\* ------------------------------------------------------------- properties

\* The frames of the body that arrived whole, in order; each has been handed
\* to the assembler (the stream drains its decoder on every chunk).
NumFrames == Len(body) \div 2
FrameAt(k) == body[2 * k - 1].frame
\* Frame k parsed into an event of the given type.
IsEv(k, type) == FrameAt(k).frame = "ok" /\ FrameAt(k).event[1].type = type
EvAt(k) == FrameAt(k).event[1]

ToolEventsOf(id) ==
    {k \in 1..NumFrames : IsEv(k, "ToolUse") /\ EvAt(k).tool_use_id = id}
SeenIds == {id \in ToolIds : ToolEventsOf(id) # {}}
FirstOf(set) == CHOOSE k \in set : \A j \in set : k <= j
LastOf(set) == CHOOSE k \in set : \A j \in set : k >= j
FirstEventOf(id) == FirstOf(ToolEventsOf(id))

LengthSeen ==
    \E k \in 1..NumFrames :
        IsEv(k, "Exception")
        /\ EvAt(k).exception_type = "ContentLengthExceededException"
ToolSeen == \E k \in 1..NumFrames : IsEv(k, "ToolUse")
UsageEvents == {k \in 1..NumFrames : IsEv(k, "ContextUsage")}

\* The final chunk of a finished stream, and the aggregated 200 response.
FinalChunk == out[Len(out) - 1].chunk[1]
Answered == IsSome(resp) /\ resp[1].status = 200
ToolCalls == UnwrapOr(resp[1].message.tool_calls, <<>>)

\* Output item i is a chunk carrying a tool call: its start, or a delta.
IsToolChunk(i) ==
    IsSome(out[i].chunk) /\ IsSome(out[i].chunk[1].delta.tool_calls)
ToolCallOf(i) == out[i].chunk[1].delta.tool_calls[1][1]
IsStart(i) == IsToolChunk(i) /\ IsSome(ToolCallOf(i).id)
IsDelta(i) == IsToolChunk(i) /\ ~IsSome(ToolCallOf(i).id)
IsContent(i) ==
    /\ IsSome(out[i].chunk)
    /\ ~IsSome(out[i].chunk[1].delta.role)
    /\ IsSome(out[i].chunk[1].delta.content)

\* C1: the final finish_reason is "length" if a ContentLengthExceededException
\* event was seen, otherwise "tool_calls" if a ToolUse event was seen,
\* otherwise "stop", whatever the order of the events, in the stream's final
\* chunk and in the aggregated response.
ExpectedFinish ==
    IF LengthSeen THEN "length" ELSE IF ToolSeen THEN "tool_calls" ELSE "stop"
C1_FinishReasonPrecedence ==
    /\ finished => FinalChunk.finish_reason = Some(ExpectedFinish)
    /\ Answered => resp[1].finish_reason = Some(ExpectedFinish)
\* A stream that saw the exception before a tool use and ends with "length".
C1_Witness ==
    /\ finished
    /\ NumFrames = 2
    /\ IsEv(1, "Exception") /\ LengthSeen /\ IsEv(2, "ToolUse")
    /\ FinalChunk.finish_reason = Some("length")

\* C2: once the upstream body has ended or failed, the stream's output ends
\* with one final chunk (finish_reason and usage set) directly followed by
\* one [DONE] item; no other item is a final chunk or a [DONE], and none
\* comes after the [DONE].
IsFinalLike(i) ==
    /\ IsSome(out[i].chunk)
    /\ (IsSome(out[i].chunk[1].finish_reason) \/ IsSome(out[i].chunk[1].usage))
C2_StreamTermination ==
    LET n == Len(out) IN
    /\ stream => (finished <=> upstream # "open")
    /\ finished =>
        /\ n >= 2
        /\ out[n] = DoneMarker
        /\ IsSome(out[n - 1].chunk)
        /\ IsSome(out[n - 1].chunk[1].finish_reason)
        /\ IsSome(out[n - 1].chunk[1].usage)
    /\ \A i \in 1..n :
        /\ out[i].data = "[DONE]" => finished /\ i = n
        /\ IsFinalLike(i) => finished /\ i = n - 1
\* A stream closed by a read error after it had emitted chunks.
C2_Witness == finished /\ upstream = "error" /\ Len(out) > 2

\* C3: for each tool_use_id the stream emits exactly one start chunk, at the
\* first ToolUse event with that id, carrying the id, that event's name and
\* empty arguments, before every delta chunk of the same index; and a ToolUse
\* event yields no chunk besides that start and the delta of a non-empty
\* fragment, stop or not.
StartsOf(id) == {i \in 1..Len(out) : IsStart(i) /\ ToolCallOf(i).id = Some(id)}
C3_ToolStartOnce ==
    stream =>
    /\ \A id \in ToolIds \ SeenIds : StartsOf(id) = {}
    /\ \A id \in SeenIds :
        \E i \in 1..Len(out) :
            /\ StartsOf(id) = {i}
            /\ origin[i] = FirstEventOf(id)
            /\ ToolCallOf(i).call_type = Some("function")
            /\ ToolCallOf(i).function.name = Some(EvAt(FirstEventOf(id)).name)
            /\ ToolCallOf(i).function.arguments = Some(<<>>)
            /\ \A j \in 1..Len(out) :
                 (IsDelta(j) /\ ToolCallOf(j).index = ToolCallOf(i).index) => j > i
    /\ \A k \in 1..NumFrames :
        IsEv(k, "ToolUse") =>
            Cardinality({i \in 1..Len(out) : origin[i] = k /\ IsToolChunk(i)})
            = (IF k = FirstEventOf(EvAt(k).tool_use_id) THEN 1 ELSE 0)
              + (IF EvAt(k).input # <<>> THEN 1 ELSE 0)
\* A tool use in two fragments, the second with stop: a start and two deltas.
C3_Witness ==
    /\ stream /\ NumFrames = 2
    /\ IsEv(1, "ToolUse") /\ IsEv(2, "ToolUse")
    /\ EvAt(1).tool_use_id = EvAt(2).tool_use_id
    /\ EvAt(1).input # <<>> /\ EvAt(2).input # <<>> /\ EvAt(2).stop
    /\ Cardinality({i \in 1..Len(out) : IsStart(i)}) = 1
    /\ Cardinality({i \in 1..Len(out) : IsDelta(i)}) = 2

\* C4: the stream's tool-index map holds exactly the ids seen, each mapped to
\* the number of ids first seen before it: the map is injective, its values
\* are 0..k-1 in order of first appearance, and (the rank of an id among the
\* first appearances being fixed) an index never changes.
C4_ToolIndexAssignment ==
    stream =>
    /\ DOMAIN ctx.tool_indices = SeenIds
    /\ \A id \in SeenIds :
        ctx.tool_indices[id]
        = Cardinality({o \in SeenIds : FirstEventOf(o) < FirstEventOf(id)})
    /\ ctx.current_tool_index = Cardinality(SeenIds) - 1
\* Both ids seen, "t2" first.
C4_Witness ==
    /\ stream
    /\ DOMAIN ctx.tool_indices = ToolIds
    /\ ctx.tool_indices["t2"] = 0 /\ ctx.tool_indices["t1"] = 1

RECURSIVE FragmentsFrom(_, _)
\* The input fragments of the ToolUse events with this id among frames k..,
\* concatenated in receipt order.
FragmentsFrom(id, k) ==
    IF k > NumFrames THEN <<>>
    ELSE (IF IsEv(k, "ToolUse") /\ EvAt(k).tool_use_id = id
          THEN EvAt(k).input ELSE <<>>) \o FragmentsFrom(id, k + 1)
CallsOf(id) == {i \in 1..Len(ToolCalls) : ToolCalls[i].id = id}

\* C5: in the aggregated response, the arguments of the tool call of every
\* tool_use_id of the event sequence are the concatenation, in receipt
\* order, of the input fragments of all ToolUse events with that id.
C5_ArgumentsPreserved ==
    Answered =>
        \A id \in SeenIds :
            /\ CallsOf(id) # {}
            /\ \A i \in CallsOf(id) :
                 ToolCalls[i].function.arguments = FragmentsFrom(id, 1)

\* C6: in the aggregated response every tool_use_id seen in a ToolUse event
\* is exactly one entry of message.tool_calls, stop seen or not, so that
\* finish_reason "tool_calls" comes with a non-empty tool_calls list.
C6_EveryToolCallListed ==
    Answered =>
        /\ \A id \in SeenIds : Cardinality(CallsOf(id)) = 1
        /\ resp[1].finish_reason = Some("tool_calls") => ToolCalls # <<>>

\* C7: when the body has ended, the usage and the finish_reason of the
\* stream's final chunk are those of the aggregated response to the same
\* body and prompt estimate.
C7_ModesAgree ==
    (finished /\ upstream = "eof") =>
        LET agg == AggregateBody(body, Model, input_est)
        IN  /\ FinalChunk.usage = agg.usage
            /\ FinalChunk.finish_reason = agg.finish_reason

\* The percentage of the latest ContextUsage event, as n / PctDen.
LastPercentage == EvAt(LastOf(UsageEvents)).context_usage_percentage
\* The prompt_tokens reported: by the final chunk, by the aggregated response.
Reported(prompt) ==
    /\ (finished /\ UsageEvents # {}) =>
            FinalChunk.usage[1].prompt_tokens = prompt
    /\ (Answered /\ UsageEvents # {}) =>
            resp[1].usage[1].prompt_tokens = prompt

\* C8, as claimed: after a ContextUsage event with percentage p the reported
\* prompt_tokens is p * 200000 / 100 rounded to the nearest integer.
C8_PromptTokensRounded ==
    UsageEvents # {} =>
        Reported((2 * LastPercentage * 200000 + 100 * PctDen)
                 \div (2 * 100 * PctDen))
\* C8, amended: the reported prompt_tokens is p * 200000 / 100 with its
\* fraction dropped (12.5 gives 25000, 0.046875 gives 93 and not 94), for the
\* latest p, whatever the initial estimate, in both modes.
C8_PromptTokensTruncated ==
    UsageEvents # {} =>
        Reported((LastPercentage * 2000) \div PctDen)
\* A stream that saw 3/64 % and reports 93 prompt tokens, not the estimate.
C8_Witness ==
    /\ finished /\ UsageEvents # {} /\ LastPercentage = 3
    /\ input_est = 40
    /\ FinalChunk.usage[1].prompt_tokens = 93

\* C9: the stream's chunks come out in the order of the events they were
\* produced for (each chunk being the one its event calls for), across body
\* chunks and ping ticks, and the closing items come last.
C9_ChunkOrder ==
    /\ Len(origin) = Len(out)
    /\ \A i, j \in 1..Len(out) :
        i < j => (origin[j] = 0 \/ (origin[i] # 0 /\ origin[i] <= origin[j]))
    /\ \A i \in 1..Len(out) :
        /\ origin[i] \in 0..NumFrames
        /\ origin[i] = 0 <=> (IsFinalLike(i) \/ ~IsSome(out[i].chunk))
        /\ (origin[i] # 0 /\ IsContent(i)) =>
              /\ IsEv(origin[i], "AssistantResponse")
              /\ out[i].chunk[1].delta.content = Some(EvAt(origin[i]).content)
        /\ IsToolChunk(i) =>
              /\ IsEv(origin[i], "ToolUse")
              /\ IsDelta(i) =>
                   ToolCallOf(i).function.arguments = Some(EvAt(origin[i]).input)
\* Chunks of two events emitted, the stream still open.
C9_Witness ==
    /\ NumFrames = 2 /\ ~finished
    /\ \E i, j \in 1..Len(out) : origin[i] = 1 /\ origin[j] = 2
    /\ IsEv(1, "ToolUse") /\ IsEv(2, "AssistantResponse")

\* C10: a step of the keep-alive timer emits nothing and leaves the stream
\* context, the decoder buffer and the finished flag as they were.
C10_PingNoEffect ==
    [][step' = "ping" =>
          /\ out' = out
          /\ ctx' = ctx
          /\ decoder' = decoder
          /\ finished' = finished /\ ~finished']_vars
\* A tick in mid-stream: chunks emitted, a tool indexed, half a frame buffered.
C10_Witness ==
    /\ step = "ping" /\ out # <<>> /\ decoder.buffer # <<>>
    /\ DOMAIN ctx.tool_indices # {} /\ ctx.output_tokens > 0


\* The request does not convert: its model is not a known one, or none of
\* its messages is left after the system ones are taken out.
Unconvertible ==
    \/ request.model # Model
    \/ \A i \in 1..Len(request.messages) : request.messages[i].role = "system"

C12_PoolExhaustedIs503 ==
    /\ call = "NoCredentialsAvailable" =>
        /\ IsSome(resp)
        /\ resp[1].status = 503
        /\ resp[1].error.type = "service_unavailable"
    /\ call \in {"UpstreamAuth", "UpstreamTransient"} =>
        /\ IsSome(resp)
        /\ resp[1].status = 502
        /\ resp[1].error.type = "api_error"

\* C13: once the stream has taken a chunk the decoder refuses for its size,
\* it is closed: finished, its output ending with the final chunk and the
\* marker.
C13_OverflowTerminates ==
    step = "overflow" =>
        /\ finished
        /\ Len(out) >= 2
        /\ out[Len(out)] = DoneMarker
        /\ IsFinalLike(Len(out) - 1)

\* The whole frames of the body, and those of them that decode and parse.
BodyFrames == [k \in 1..NumFrames |-> FrameAt(k)]
GoodFrames == SelectSeq(BodyFrames, LAMBDA f : f.frame = "ok")
\* The stream's assembler run over the good frames alone.
CleanRun ==
    StreamLoop(OpenAIStreamContext_new(Model, input_est), <<>>,
               [i \in 1..Len(GoodFrames) |-> [ok |-> TRUE, frame |-> GoodFrames[i]]],
               1)
\* The stream's output without its closing items.
Chunks == IF finished THEN SubSeq(out, 1, Len(out) - 2) ELSE out

\* C14: a frame that fails to decode, or to parse into an event, yields no
\* chunk, changes nothing in the assembler and does not end the response:
\* the stream's context and chunks, and the aggregated response, are those
\* of the same body with these frames left out.
C14_BadFrameSkipped ==
    /\ stream =>
        /\ \A i \in 1..Len(out) :
             origin[i] # 0 => FrameAt(origin[i]).frame = "ok"
        /\ ctx = CleanRun.ctx
        /\ Chunks = SseBytes(CleanRun.chunks)
        /\ step \in {"chunk", "overflow"} => ~finished
    /\ Answered =>
        resp[1] = AggregateBody(EncodeAll(GoodFrames), Model, input_est)
\* A frame with a bad checksum, then a text event whose chunk is emitted.
C14_Witness ==
    /\ stream /\ NumFrames = 2 /\ ~finished
    /\ FrameAt(1) = BadFrame
    /\ IsEv(2, "AssistantResponse") /\ EvAt(2).content # <<>>
    /\ Len(out) = 2 /\ origin[2] = 2

\* C20: however the frames of the body are split into chunks, the decoder,
\* drained after each feed, has yielded one result per whole frame, in the
\* order of the body (Ok for every frame whose checksum holds), and keeps
\* exactly the partial trailing frame in its buffer.
C20_DecoderResilience ==
    stream =>
        /\ Len(decoded) = NumFrames
        /\ \A k \in 1..NumFrames :
            /\ decoded[k].frame = FrameAt(k)
            /\ decoded[k].ok = (FrameAt(k) # BadFrame)
        /\ decoder.buffer =
             (IF Len(body) % 2 = 1 THEN <<body[Len(body)]>> ELSE <<>>)
\* One frame decoded and the first half of the next one buffered.
C20_Witness ==
    /\ stream /\ Len(decoded) = 1 /\ decoded[1].ok
    /\ Len(decoder.buffer) = 1 /\ decoder.buffer[1].half = 1

\* ------------------------------------------------ properties of the pool

\* The credentials a call may still be given, and the first of them in the
\* order (priority, id).
Eligible(skip) == {c \in CredIds : ~pool[c].disabled /\ c \notin skip}
IsFirst(c, skip) ==
    /\ c \in Eligible(skip)
    /\ \A d \in Eligible(skip) :
        \/ pool[c].priority < pool[d].priority
        \/ (pool[c].priority = pool[d].priority /\ c <= d)

\* Steps of task t: the pool hands it a credential; the upstream answers its
\* attempt with outcome o.
Selects(t) == tasks[t].pc = "start" /\ tasks'[t].pc \in {"gate", "send"}
Answers(t, o) ==
    /\ tasks[t].pc = "send"
    /\ tasks'[t].attempts = tasks[t].attempts + 1
    /\ tasks'[t].outcome = o

\* C15: in every pool state select() yields the credential that is not
\* disabled and comes first by (priority, id), or none when all are
\* disabled; and a selection leaves the pool as it was, so that selecting
\* again yields the same credential.
C15_SelectionOrder ==
    /\ [](IF Eligible({}) = {} THEN select(pool, {}) = 0
          ELSE IsFirst(select(pool, {}), {}))
    /\ [][\A t \in Tasks :
            Selects(t) =>
                /\ pool' = pool
                /\ tasks[t].tried = {} => tasks'[t].cred = select(pool', {})]_vars
\* The first credential by priority has been disabled by its failures and
\* the next one is selected.
C15_Witness ==
    /\ pool[1].priority < pool[2].priority
    /\ pool[1].disabled /\ pool[1].failure_count = FailureThreshold
    /\ select(pool, {}) = 2
    /\ \E t \in Tasks : tasks[t].pc = "send" /\ tasks[t].cred = 2
                        /\ tasks[t].tried = {}

\* C16, as claimed: no credential has more than one outbound refresh call
\* made for it while its token is not valid again.
C16_OneRefreshCall ==
    \A c \in CredIds : refresh_calls[c] <= 1
\* C16, amended: at most one refresh call per credential is in flight, a
\* task that takes the gate after a refresh succeeded sees the fresh token
\* and makes no call, and a further call is made only after a call that
\* failed (which leaves the token stale).
C16_RefreshSingleFlight ==
    \A c \in CredIds :
        LET flying == {t \in Tasks : tasks[t].pc = "refresh" /\ tasks[t].cred = c}
        IN  /\ Cardinality(flying) <= 1
            /\ flying # {} => ~pool[c].token_valid /\ gate[c] \in flying
            /\ refresh_calls[c] <= refresh_fails[c] + 1
            /\ refresh_calls[c] >= refresh_fails[c] + Cardinality(flying)
\* Two calls on a credential whose token had expired: one refresh call was
\* made, and the task that took the gate second found the token fresh.
C16_Witness ==
    \E c \in CredIds :
        /\ refresh_calls[c] = 1 /\ refresh_fails[c] = 0
        /\ pool[c].token_valid
        /\ \E t, u \in Tasks :
            /\ t # u
            /\ tasks[t].cred = c /\ tasks[t].pc = "send"
            /\ tasks[t].outcome = "none"
            /\ tasks[u].cred = c /\ tasks[u].pc = "send"
            /\ tasks[u].outcome = "fresh"

\* C17: a credential becomes disabled exactly in the step that brings its
\* failure count to the threshold of 3, which only an auth failure or a
\* failed refresh of that credential does; an attempt that fails otherwise
\* leaves the pool as it was; and no selection yields a disabled credential.
C17_FailureThreshold ==
    [][/\ \A c \in CredIds :
            /\ ~pool[c].disabled =>
                (pool'[c].disabled <=>
                    /\ pool[c].failure_count = FailureThreshold - 1
                    /\ pool'[c].failure_count = FailureThreshold)
            /\ pool[c].disabled => pool'[c].disabled
            /\ pool'[c].failure_count > pool[c].failure_count =>
                /\ pool'[c].failure_count = pool[c].failure_count + 1
                /\ \E t \in Tasks :
                    /\ tasks[t].cred = c
                    /\ \/ Answers(t, "auth")
                       \/ (tasks[t].pc = "refresh" /\ tasks'[t].outcome = "refresh")
       /\ \A t \in Tasks :
            /\ (Answers(t, "transient") \/ Answers(t, "client")) => pool' = pool
            /\ Selects(t) => ~pool'[tasks'[t].cred].disabled]_vars
\* The first credential disabled at three failures; a call that started
\* afterwards has been given the second.
C17_Witness ==
    /\ pool[1].priority < pool[2].priority
    /\ pool[1].disabled /\ pool[1].failure_count = FailureThreshold
    /\ \E t \in Tasks : tasks[t].cred = 2 /\ tasks[t].tried = {2}
                        /\ tasks[t].pc = "done" /\ tasks[t].result = "ok"

\* C18: the step in which a call succeeds with credential c leaves c's
\* failure count at 0 and touches no other credential.
C18_SuccessResets ==
    [][\A t \in Tasks :
            Answers(t, "success") =>
                /\ tasks'[t].result = "ok"
                /\ pool'[tasks[t].cred].failure_count = 0
                /\ \A d \in CredIds \ {tasks[t].cred} : pool'[d] = pool[d]]_vars
\* One call failed auth on the first credential, another then succeeded
\* with it: its count is back to 0.
C18_Witness ==
    \E t, u \in Tasks :
        /\ tasks[t].result = "ok" /\ tasks[t].cred = 1 /\ tasks[t].attempts = 1
        /\ tasks[u].outcome = "auth" /\ tasks[u].tried = {1}
        /\ pool[1].failure_count = 0

\* C19: a call makes at most 3 attempts, each with a credential it has not
\* tried; an auth failure is counted once against its credential and the
\* call moves on to the next candidate or, its attempts used up, fails; and
\* it fails with NoCredentialsAvailable only when no candidate is left.
C19_RetryNextCredential ==
    /\ [](\A t \in Tasks :
            /\ tasks[t].attempts <= 3
            /\ tasks[t].attempts <= Cardinality(tasks[t].tried)
            /\ tasks[t].result = "NoCredentialsAvailable" =>
                    Eligible(tasks[t].tried) = {}
            /\ tasks[t].result \in {"UpstreamAuth", "UpstreamTransient"} =>
                    tasks[t].attempts = 3)
    /\ [][\A t \in Tasks :
            /\ Selects(t) =>
                /\ tasks'[t].cred \notin tasks[t].tried
                /\ IsFirst(tasks'[t].cred, tasks[t].tried)
            /\ Answers(t, "auth") =>
                LET c == tasks[t].cred IN
                /\ pool'[c].failure_count = pool[c].failure_count + 1
                /\ \A d \in CredIds \ {c} : pool'[d] = pool[d]
                /\ c \in tasks'[t].tried
                /\ tasks'[t].pc = "start" \/ tasks'[t].result = "UpstreamAuth"]_vars
\* One call, credential 1 before credential 2: a 401 with credential 1, then
\* success with credential 2; their failure counts are 1 and 0.
C19_Witness ==
    /\ \A t \in Tasks \ {1} : tasks[t].pc = "idle"
    /\ pool[1].priority = 0 /\ pool[2].priority = 1
    /\ tasks[1].result = "ok" /\ tasks[1].cred = 2 /\ tasks[1].tried = {1, 2}
    /\ tasks[1].attempts = 2
    /\ pool[1].failure_count = 1 /\ pool[2].failure_count = 0

\* ------------------------------------------------- claims on the converter

\* The messages of the payload converted and of the canonical request made
\* of them.
Payload == request.messages
Canonical == converted[1].messages
Last(s) == s[Len(s)]


\* Where the tool messages at the end of the payload begin: the index of the
\* first message of the longest run of tool messages that ends the payload,
\* one past the end when the last message is no tool message.
TailRunStart ==
    CHOOSE i \in 1..(Len(Payload) + 1) :
        /\ \A j \in i..Len(Payload) : Payload[j].role = "tool"
        /\ i > 1 => Payload[i - 1].role # "tool"

\* The payload ends with a run of tool messages, each with a tool_call_id.
EndsWithToolRun ==
    /\ TailRunStart <= Len(Payload)
    /\ \A j \in TailRunStart..Len(Payload) : IsSome(Payload[j].tool_call_id)

\* The tool_result blocks of that run, in the order of its messages.
TailRunResults ==
    [k \in 1..(Len(Payload) - TailRunStart + 1) |->
        LET msg == Payload[TailRunStart + k - 1] IN
        ToolResultBlock(msg.tool_call_id[1],
                        UnwrapOr(extract_text_content(msg.content), <<>>))]

\* The canonical messages made of the payload before that run.
BeforeTailRun ==
    ConvertMessages(<<>>, SubSeq(Payload, 1, TailRunStart - 1))

\* A content as a list of blocks: the list, or the string as one text block.
AsBlocks(content) ==
    IF content.kind = "Array" THEN content.items
    ELSE <<TextBlock(content.str)>>

\* C21: the tool messages of a run (each with a tool_call_id) end up as
\* tool_result blocks, in input order, inside one user message: appended to
\* the canonical message before them when that is a user message (its string
\* content turned into a text block first), and otherwise alone in a fresh
\* user message.
C21_ToolRunCoalesced ==
    (IsSome(converted) /\ EndsWithToolRun) =>
        IF BeforeTailRun # <<>> /\ Last(BeforeTailRun).role = "user"
        THEN /\ Len(Canonical) = Len(BeforeTailRun)
             /\ \A i \in 1..(Len(Canonical) - 1) : Canonical[i] = BeforeTailRun[i]
             /\ Last(Canonical).role = "user"
             /\ Last(Canonical).content =
                    JsonArray(AsBlocks(Last(BeforeTailRun).content)
                              \o TailRunResults)
        ELSE Canonical =
                Append(BeforeTailRun, Message("user", JsonArray(TailRunResults)))
\* A user message with string content, then two tool messages: one user
\* message of three blocks, the text and the two results.
C21_Witness ==
    /\ IsSome(converted)
    /\ Len(Payload) = 3 /\ Payload[1] = UserMsg /\ TailRunStart = 2
    /\ EndsWithToolRun
    /\ Len(Canonical) = 1
    /\ Canonical[1].content.kind = "Array"
    /\ Len(Canonical[1].content.items) = 3
    /\ Canonical[1].content.items[1] = TextBlock(<<"hi">>)
    /\ Canonical[1].content.items[3].tool_use_id = "call_2"

\* The payload ends with an assistant message; its tool calls and whether
\* it has text.
EndsWithAssistant == Payload # <<>> /\ Last(Payload).role = "assistant"
LastCalls == UnwrapOr(Last(Payload).tool_calls, <<>>)
LastHasText ==
    LET text == extract_text_content(Last(Payload).content)
    IN  IsSome(text) /\ text[1] # <<>>

IsSystem(msg) == msg.role = "system"
HasText(msg) == IsSome(extract_text_content(msg.content))
IsSystemWithText(msg) == IsSystem(msg) /\ HasText(msg)
IsNotSystem(msg) == ~IsSystem(msg)
SystemEntries == UnwrapOr(converted[1].system, <<>>)

\* The system messages are kept out of the canonical messages, and the
\* system list is absent rather than empty.
SystemKeptApart ==
    /\ Canonical = ConvertMessages(<<>>, SelectSeq(Payload, IsNotSystem))
    /\ \A i \in 1..Len(Canonical) : Canonical[i].role # "system"
    /\ converted[1].system # Some(<<>>)

\* The entries of the system list are the texts of the messages msgs, in order.
SystemEntriesAre(msgs) ==
    /\ Len(SystemEntries) = Len(msgs)
    /\ \A i \in 1..Len(msgs) :
        SystemEntries[i].text =
            UnwrapOr(extract_text_content(msgs[i].content), <<>>)

\* C23 as stated: every system message becomes one entry of the system
\* list, in input order, and none appears among the messages; the list is
\* absent when the payload has no system message.
C23_EverySystemMessage ==
    IsSome(converted) =>
        /\ SystemKeptApart
        /\ SystemEntriesAre(SelectSeq(Payload, IsSystem))

\* C23: every system message that has text becomes one entry of the system
\* list, in input order, a system message without text becomes none, and no
\* system message appears among the messages; the list is absent when no
\* system message has text.
C23_SystemMessagesWithText ==
    IsSome(converted) =>
        /\ SystemKeptApart
        /\ SystemEntriesAre(SelectSeq(Payload, IsSystemWithText))
\* A system message without content, then one with text, then a user
\* message: one entry and one message.
C23_Witness ==
    /\ IsSome(converted)
    /\ Len(Payload) = 3
    /\ IsSystem(Payload[1]) /\ ~HasText(Payload[1])
    /\ Payload[2] = SystemMsg /\ Payload[3] = UserMsg
    /\ converted[1].system = Some(<<SystemMessage(<<"be brief">>)>>)
    /\ Len(Canonical) = 1

\* The URL is inline image data: data:image/...;base64,... with the comma
\* that ends ";base64" its first.
IsInlineImage(url) ==
    /\ starts_with(url, <<"data:", "image/">>)
    /\ \E k \in 3..(Len(url) - 2) :
        /\ url[k] = ";" /\ url[k + 1] = "base64" /\ url[k + 2] = ","
        /\ \A j \in 1..(k + 1) : url[j] # ","
\* The URL is no data URL.
IsRemote(url) == ~starts_with(url, <<"data:">>)

\* The text of an inline URL between "data:" and its first ";", and the text
\* after its first ",".
MediaTypeOf(url) ==
    SubSeq(url, 2, (CHOOSE k \in 1..Len(url) :
                        url[k] = ";" /\ \A j \in 1..(k - 1) : url[j] # ";") - 1)
DataOf(url) ==
    SubSeq(url, (CHOOSE k \in 1..Len(url) :
                    url[k] = "," /\ \A j \in 1..(k - 1) : url[j] # ",") + 1,
           Len(url))

\* The payload ends with a user message whose content is a list; its
\* image_url items, and the image blocks of the canonical message made of it.
EndsWithUserList ==
    /\ Payload # <<>> /\ Last(Payload).role = "user"
    /\ IsSome(Last(Payload).content)
    /\ Last(Payload).content[1].kind = "Array"
IsImageUrl(item) == item.type = Some("image_url") /\ IsSome(item.url)
IsImageBlock(block) == block.type = "image"
LastImageUrls == SelectSeq(Last(Payload).content[1].items, IsImageUrl)
LastImageBlocks ==
    IF Last(Canonical).content.kind = "Array"
    THEN SelectSeq(Last(Canonical).content.items, IsImageBlock)
    ELSE <<>>

\* C24: in a user content list every image_url item with an inline
\* data:image/...;base64,... URL becomes one image block whose source has
\* type base64, the media type between "data:" and ";" and the data after
\* the first ","; an item with a URL that is no data URL becomes no block.
\* (The other items, data URLs of another form, are left as they come out.)
C24_InlineImagesOnly ==
    (IsSome(converted) /\ EndsWithUserList) =>
        LastImageBlocks =
            Flatten([i \in 1..Len(LastImageUrls) |->
                        LET url == LastImageUrls[i].url[1] IN
                        IF IsInlineImage(url)
                        THEN <<[type |-> "image",
                                source |-> [type |-> "base64",
                                            media_type |-> MediaTypeOf(url),
                                            data |-> DataOf(url)]]>>
                        ELSE IF IsRemote(url) THEN <<>>
                        ELSE UserBlocks(LastImageUrls[i])])
\* A list with two inline images and a remote one between them: two image
\* blocks, the second with the data after its first comma, a comma included.
C24_Witness ==
    /\ IsSome(converted) /\ EndsWithUserList
    /\ Len(LastImageUrls) = 3
    /\ IsInlineImage(LastImageUrls[1].url[1])
    /\ IsRemote(LastImageUrls[2].url[1])
    /\ Len(LastImageBlocks) = 2
    /\ LastImageBlocks[1].source.media_type = <<"image/", "png">>
    /\ LastImageBlocks[2].source.data = <<"AA", ",", "BB">>

\* ----------------------------------------------- claims on the credentials

\* The list is in the order of (priority, id): of two credentials the
\* earlier has the lower priority or, at equal priority, the lower id.
OrderedByPriorityThenId(creds) ==
    \A i, j \in 1..Len(creds) :
        i < j =>
            \/ creds[i].priority < creds[j].priority
            \/ /\ creds[i].priority = creds[j].priority
               /\ (IsSome(creds[i].id) /\ IsSome(creds[j].id)) =>
                    creds[i].id[1] <= creds[j].id[1]

\* C25 as stated: the list into_sorted_credentials returns is ordered by
\* priority ascending, ties broken by id ascending, whatever the order of
\* the input.
C25_SortedByPriorityThenId ==
    IsSome(sorted) => OrderedByPriorityThenId(sorted[1])

\* The auth method is one of the legacy ones, in whatever case.
IsLegacyAuthMethod(auth_method) ==
    /\ IsSome(auth_method)
    /\ [i \in 1..Len(auth_method[1]) |-> to_ascii_lowercase(auth_method[1][i])]
            \in {BuilderId, Iam}
\* The credential with a legacy auth method replaced by idc.
Canonicalized(cred) ==
    IF IsLegacyAuthMethod(cred.auth_method)
    THEN [cred EXCEPT !.auth_method = Some(Idc)]
    ELSE cred
\* How many times x is in the list.
CountOf(creds, x) == Cardinality({i \in 1..Len(creds) : creds[i] = x})

\* C26: after into_sorted_credentials, of one credential or of a list, no
\* credential has a legacy auth method (builder-id or iam in any case): the
\* credentials returned are those given with each legacy auth method replaced
\* by idc and every other one, the absent one too, left as it was; doing it
\* again changes nothing.
C26_AuthMethodCanonical ==
    IsSome(sorted) =>
        /\ \A i \in 1..Len(sorted[1]) : ~IsLegacyAuthMethod(sorted[1][i].auth_method)
        /\ Len(sorted[1]) = Len(config.creds)
        /\ \A i \in 1..Len(config.creds) :
            LET x == Canonicalized(config.creds[i]) IN
            CountOf(sorted[1], x) =
                Cardinality({j \in 1..Len(config.creds) :
                                Canonicalized(config.creds[j]) = x})
        /\ into_sorted_credentials(Multiple(sorted[1])) = sorted[1]
\* A list of two credentials of one priority, the first with IAM in upper
\* case and the second without auth method: idc, and still none.
C26_Witness ==
    /\ IsSome(sorted)
    /\ config.kind = "Multiple" /\ Len(config.creds) = 2
    /\ config.creds[1].priority = config.creds[2].priority
    /\ config.creds[1].auth_method = Some(<<"I", "A", "M">>)
    /\ config.creds[2].auth_method = None
    /\ sorted[1][1].auth_method = Some(Idc)
    /\ sorted[1][2].auth_method = None

\* ------------------------------------------- claims on the credential store

\* The latest two calls on the store.
LastTwo == SubSeq(trace, Len(trace) - 1, Len(trace))
\* The credentials persisted all carry an id, and no two the same.
DistinctIds ==
    /\ \A i \in 1..Len(config.creds) : IsSome(config.creds[i].id)
    /\ \A i, j \in 1..Len(config.creds) :
        i # j => config.creds[i].id # config.creds[j].id
\* The list holds the credentials of given, one for one: each with its
\* fields, and with its id when it has one.
SameCredentials(list, given) ==
    /\ Len(list) = Len(given)
    /\ \E f \in [1..Len(given) -> 1..Len(given)] :
        /\ \A i, j \in 1..Len(given) : i # j => f[i] # f[j]
        /\ \A i \in 1..Len(given) :
            /\ list[f[i]].priority = given[i].priority
            /\ list[f[i]].auth_method = given[i].auth_method
            /\ IsSome(list[f[i]].id)
            /\ IsSome(given[i].id) => list[f[i]].id = given[i].id

\* C27 as stated: for every list, whatever the store held, persisting it and
\* loading returns exactly its credentials, every field and every id as
\* given, ordered by (priority, id).
C27_RoundTripEveryList ==
    (Len(trace) >= 2 /\ LastTwo[1] \in {"persist", "persist_err"}
        /\ LastTwo[2] = "load") =>
        /\ SameCredentials(loaded[1].creds, config.creds)
        /\ {loaded[1].creds[i] : i \in 1..Len(loaded[1].creds)}
                = {config.creds[i] : i \in 1..Len(config.creds)}
        /\ OrderedByPriorityThenId(loaded[1].creds)

\* C27: a list whose credentials carry ids that all differ is always
\* persisted, whatever the store held, and loading then returns exactly its
\* credentials, fields and ids as given, ordered by (priority, id); of any
\* list that is persisted, loading returns the credentials with their
\* fields, a credential without id under the id the store gave it; a persist
\* that fails leaves the rows of the store as they were; and persisting
\* again leaves the store as the first persist left it.
C27_RoundTrip ==
    /\ [](/\ DistinctIds => \A i \in 1..Len(trace) : trace[i] # "persist_err"
          /\ (Len(trace) >= 2 /\ LastTwo = <<"persist", "load">>) =>
                /\ SameCredentials(loaded[1].creds, config.creds)
                /\ OrderedByPriorityThenId(loaded[1].creds)
                /\ DistinctIds =>
                    {loaded[1].creds[i] : i \in 1..Len(loaded[1].creds)}
                        = {config.creds[i] : i \in 1..Len(config.creds)})
    /\ [][/\ trace' = Append(trace, "persist_err") =>
                store' = Some(UnwrapOr(store, {}))
          /\ (trace # <<>> /\ Last(trace) \in {"persist", "persist_err"}
                /\ Len(trace') = Len(trace) + 1
                /\ Last(trace') \in {"persist", "persist_err"}) =>
                    store' = store /\ Last(trace') = Last(trace)]_vars
\* Two credentials of one priority, ids 2 and 1 in that order, persisted
\* into a store that held one row, then loaded: id 1 first, then id 2, and
\* the old row gone.
C27_Witness ==
    /\ trace = <<"persist", "load">>
    /\ config.kind = "Multiple" /\ Len(config.creds) = 2
    /\ config.creds[1].id = Some(2) /\ config.creds[2].id = Some(1)
    /\ config.creds[1].priority = 0 /\ config.creds[2].priority = 0
    /\ loaded[1].creds = <<config.creds[2], config.creds[1]>>
    /\ Cardinality(store[1]) = 2

\* C28 as stated: a load of a store that does not exist, with a legacy file
\* that holds credentials, writes them into the store and returns them; the
\* later loads read the store, never the legacy file.
C28_LegacyMigratedOnce ==
    (trace # <<>> /\ trace[1] = "migrate" /\ legacy[1].creds # <<>>) =>
        /\ \A k \in 2..Len(trace) : trace[k] # "migrate"
        /\ IsSome(store)
        /\ Len(trace) = 1 =>
            /\ loaded[1].creds = into_sorted_credentials(legacy[1])
            /\ SameCredentials(load_credentials_from_sqlite(store[1]),
                               loaded[1].creds)
        /\ trace = <<"migrate", "load">> =>
            SameCredentials(loaded[1].creds,
                            into_sorted_credentials(legacy[1]))

\* -------------------------------------------- claims on the token estimates

\* The least n with n * b >= a, for a >= 0 and b > 0.
CeilDiv(a, b) == CHOOSE n \in 0..a : n * b >= a /\ (n > 0 => (n - 1) * b < a)
\* The code points of text in U+4E00..U+9FFF, and the others.
ChineseCount(text) == Cardinality({k \in 1..Len(text) : text[k] \in ChineseChars})
OtherCount(text) == Len(text) - ChineseCount(text)

\* C29: for a string with c code points in U+4E00..U+9FFF and o others,
\* estimate_tokens returns max(1, ceil(2c/3) + ceil(o/4)).
C29_EstimateFormula ==
    \A i \in 1..Len(estimates) :
        estimates[i] =
            LET sum == CeilDiv(2 * ChineseCount(texts[i]), 3)
                       + CeilDiv(OtherCount(texts[i]), 4)
            IN  IF sum >= 1 THEN sum ELSE 1
\* Two Chinese code points and two others: 2 + 1.
C29_Witness ==
    /\ Len(estimates) >= 1
    /\ ChineseCount(texts[1]) = 2 /\ OtherCount(texts[1]) = 2
    /\ estimates[1] = 3

\* C30 as stated: the estimate does not decrease with the length of the
\* input in code points, and is at least 1 for a non-empty input.
C30_MonotoneInLength ==
    /\ \A i \in 1..Len(estimates) : texts[i] # <<>> => estimates[i] >= 1
    /\ (Len(estimates) = 2 /\ Len(texts[1]) <= Len(texts[2])) =>
            estimates[1] <= estimates[2]

\* C30: the estimate does not decrease when the input gains code points: a
\* string with at least as many Chinese code points and at least as many
\* others as another has at least its estimate; and the estimate is at
\* least 1 for every input, the empty one too.
C30_MonotoneInCounts ==
    /\ \A i \in 1..Len(estimates) : estimates[i] >= 1
    /\ (/\ Len(estimates) = 2
        /\ ChineseCount(texts[1]) <= ChineseCount(texts[2])
        /\ OtherCount(texts[1]) <= OtherCount(texts[2])) =>
            estimates[1] <= estimates[2]
\* One Chinese code point, and the same with three others after it: 1 and 2.
C30_Witness ==
    /\ Len(estimates) = 2
    /\ texts[1] = <<"U4E2D">> /\ Len(texts[2]) = 4
    /\ SubSeq(texts[2], 1, 1) = texts[1] /\ OtherCount(texts[2]) = 3
    /\ estimates = <<1, 2>>

\* ------------------------------------------- claims on the usage of a response

RECURSIVE TextFrom(_)
\* The contents of the AssistantResponse events from frame k on, in order.
TextFrom(k) ==
    IF k > NumFrames THEN <<>>
    ELSE (IF IsEv(k, "AssistantResponse") THEN EvAt(k).content ELSE <<>>)
         \o TextFrom(k + 1)

RECURSIVE ToolCharges(_)
\* For every tool_use_id of ids, a quarter of the length of its arguments,
\* rounded up as estimate_output_tokens does, plus 10.
ToolCharges(ids) ==
    IF ids = {} THEN 0
    ELSE LET id == CHOOSE x \in ids : TRUE
         IN  (ByteLen(FragmentsFrom(id, 1)) + 3) \div 4 + 10
             + ToolCharges(ids \ {id})

RECURSIVE CallCharges(_)
\* The same charge for every tool call of a list, by its own arguments.
CallCharges(calls) ==
    IF calls = <<>> THEN 0
    ELSE (ByteLen(calls[1].function.arguments) + 3) \div 4 + 10
         + CallCharges(Tail(calls))

\* C31 as stated: the completion tokens are the estimate of the output text
\* plus, for each tool call, the length of its arguments divided by 4 plus
\* 10, in the final chunk of the stream as in the aggregated response.
C31_ToolCallCharge ==
    /\ (finished /\ upstream = "eof") =>
            FinalChunk.usage[1].completion_tokens
                = estimate_tokens(TextFrom(1)) + ToolCharges(SeenIds)
    /\ Answered =>
            resp[1].usage[1].completion_tokens
                = estimate_tokens(TextFrom(1))
                  + CallCharges(ToolCalls)

\* The prompt tokens the latest ContextUsage reading gives, or the estimate
\* made from the request when there was no reading.
ExpectedPrompt ==
    IF UsageEvents = {} THEN input_est
    ELSE (LastPercentage * 2000) \div PctDen

\* C33: the prompt_tokens reported are the estimate made from the request
\* when no ContextUsage event was seen, and otherwise those of the latest
\* ContextUsage reading alone, whatever came before and after it; in the
\* final chunk of the stream and in the aggregated response.
C33_PromptFromLatestReading ==
    /\ (stream /\ call = "ok") =>
            UnwrapOr(ctx.context_input_tokens, ctx.input_tokens) = ExpectedPrompt
    /\ finished => FinalChunk.usage[1].prompt_tokens = ExpectedPrompt
    /\ Answered => resp[1].usage[1].prompt_tokens = ExpectedPrompt
\* Two readings, 12.5 % and then 3/64 %: 93 prompt tokens, neither 25000 nor
\* the estimate.
C33_Witness ==
    /\ finished /\ NumFrames = 2
    /\ IsEv(1, "ContextUsage") /\ EvAt(1).context_usage_percentage = 800
    /\ IsEv(2, "ContextUsage") /\ EvAt(2).context_usage_percentage = 3
    /\ input_est = 40
    /\ FinalChunk.usage[1].prompt_tokens = 93

\* --------------------------------------------- claims on the chunks of a stream

RECURSIVE DeltasFrom(_, _)
\* The arguments of the delta chunks of tool index idx from output item i
\* on, concatenated in emission order.
DeltasFrom(idx, i) ==
    IF i > Len(out) THEN <<>>
    ELSE (IF IsDelta(i) /\ ToolCallOf(i).index = idx
          THEN ToolCallOf(i).function.arguments[1] ELSE <<>>)
         \o DeltasFrom(idx, i + 1)

\* C34: for each tool index the arguments of its delta chunks, concatenated
\* in emission order, are the input fragments of all ToolUse events of its
\* tool_use_id concatenated in receipt order, the first event's included.
C34_DeltasCarryFragments ==
    (stream /\ call = "ok") =>
        \A id \in SeenIds :
            /\ id \in DOMAIN ctx.tool_indices
            /\ DeltasFrom(ctx.tool_indices[id], 1) = FragmentsFrom(id, 1)
\* The fragments x and y of one tool, in two delta chunks.
C34_Witness ==
    /\ stream /\ NumFrames = 2
    /\ IsEv(1, "ToolUse") /\ IsEv(2, "ToolUse")
    /\ EvAt(1).tool_use_id = "t1" /\ EvAt(2).tool_use_id = "t1"
    /\ DeltasFrom(0, 1) = <<"x", "y">>
    /\ Cardinality({i \in 1..Len(out) : IsDelta(i)}) = 2

\* Output item i is the role chunk.
IsRoleChunk(i) ==
    IsSome(out[i].chunk) /\ out[i].chunk[1].delta.role = Some("assistant")

\* C35: the role chunk (role assistant, empty content) is emitted at most
\* once, and when a content or tool-call chunk has been emitted the role
\* chunk is the first item of the stream.
C35_RoleChunkOnceAndFirst ==
    /\ Cardinality({i \in 1..Len(out) : IsRoleChunk(i)}) <= 1
    /\ \A i \in 1..Len(out) :
        /\ IsRoleChunk(i) =>
            /\ i = 1
            /\ out[i].chunk[1].delta.content = Some(<<>>)
            /\ out[i].chunk[1].delta.tool_calls = None
        /\ (IsContent(i) \/ IsToolChunk(i)) => (i > 1 /\ IsRoleChunk(1))
\* Two events that each emit a chunk: the role chunk, then the two.
C35_Witness ==
    /\ NumFrames = 2 /\ Len(out) = 3
    /\ IsRoleChunk(1) /\ IsContent(2) /\ IsToolChunk(3)

\* C36: a finish_reason and a usage are carried by the final chunk only,
\* every chunk before it has neither, and all chunks of the stream carry
\* one id and one model.
C36_FinalChunkAlone ==
    /\ \A i \in 1..Len(out) :
        IsSome(out[i].chunk) =>
            IF finished /\ i = Len(out) - 1
            THEN /\ IsSome(out[i].chunk[1].finish_reason)
                 /\ IsSome(out[i].chunk[1].usage)
            ELSE /\ out[i].chunk[1].finish_reason = None
                 /\ out[i].chunk[1].usage = None
    /\ \A i, j \in 1..Len(out) :
        (IsSome(out[i].chunk) /\ IsSome(out[j].chunk)) =>
            /\ out[i].chunk[1].id = out[j].chunk[1].id
            /\ out[i].chunk[1].model = out[j].chunk[1].model
\* A finished stream of a content chunk and a tool call.
C36_Witness ==
    /\ finished /\ Len(out) >= 5
    /\ IsContent(2)
    /\ \E i \in 3..(Len(out) - 2) : IsToolChunk(i)
    /\ FinalChunk.finish_reason = Some("tool_calls")

\* The tokens frame k adds to the output estimate.
TokensOf(k) ==
    IF IsEv(k, "AssistantResponse") /\ EvAt(k).content # <<>>
    THEN estimate_tokens(EvAt(k).content)
    ELSE IF IsEv(k, "ToolUse") /\ EvAt(k).input # <<>>
    THEN (ByteLen(EvAt(k).input) + 3) \div 4
    ELSE 0

RECURSIVE TokensFrom(_)
TokensFrom(k) == IF k > NumFrames THEN 0 ELSE TokensOf(k) + TokensFrom(k + 1)

\* The events that only set a field of the context.
QuietEvents == {e \in Events : e.type \in {"ContextUsage", "Exception"}}

\* C37: a ContextUsage or Exception event emits no content and no tool-call
\* chunk and leaves output_tokens, the tool-index map and has_tool_use as
\* they were; output_tokens is what the AssistantResponse and ToolUse events
\* seen so far add up to, no other event changing it, and never decreases.
C37_QuietEvents ==
    /\ [](/\ \A e \in QuietEvents :
                LET p == process_event(ctx, e) IN
                /\ p.ctx.output_tokens = ctx.output_tokens
                /\ p.ctx.tool_indices = ctx.tool_indices
                /\ p.ctx.has_tool_use = ctx.has_tool_use
                /\ \A i \in 1..Len(p.chunks) :
                    /\ p.chunks[i].delta.role = Some("assistant")
                    /\ p.chunks[i].delta.tool_calls = None
          /\ \A i \in 1..Len(out) :
                (origin[i] # 0 /\ (IsEv(origin[i], "ContextUsage")
                                    \/ IsEv(origin[i], "Exception"))) =>
                    IsRoleChunk(i)
          /\ (stream /\ call = "ok") => ctx.output_tokens = TokensFrom(1))
    /\ [][ctx'.output_tokens >= ctx.output_tokens]_vars
\* An AssistantResponse and then an Exception: one token, and no chunk for
\* the second event.
C37_Witness ==
    /\ stream /\ NumFrames = 2
    /\ IsEv(1, "AssistantResponse") /\ EvAt(1).content # <<>>
    /\ IsEv(2, "Exception")
    /\ ctx.output_tokens = 1
    /\ Len(out) = 2

\* ------------------------------------------------- claims on the store's writes

\* The rows of the store, none when the file is absent.
RowsOf(s) == UnwrapOr(s, {})

IsUserOrAssistant(msg) == msg.role \in {"user", "assistant"}
Contributes(msg) ==
    \/ IsUserOrAssistant(msg)
    \/ msg.role = "tool" /\ IsSome(msg.tool_call_id)
\* A canonical message made for a tool result: a user message whose blocks
\* begin with a tool_result, which no user message of a payload gives.
IsToolResultMessage(m) ==
    /\ m.role = "user"
    /\ m.content.kind = "Array"
    /\ m.content.items # <<>>
    /\ \A i \in 1..Len(m.content.items) : m.content.items[i].type = "tool_result"
IsOfPayload(m) == ~IsToolResultMessage(m)
\* The roles of a list of messages.
RolesOf(msgs) == [i \in 1..Len(msgs) |-> msgs[i].role]

\* C39: the canonical messages, those made for tool results aside, are one
\* for each user or assistant message of the payload, of its role and in its
\* order; the others are user messages of tool results, no more of them than
\* tool messages with a tool_call_id; and the messages of another role and
\* the tool messages without tool_call_id contribute nothing.
C39_OneMessagePerTurn ==
    IsSome(converted) =>
        /\ RolesOf(SelectSeq(Canonical, IsOfPayload))
                = RolesOf(SelectSeq(Payload, IsUserOrAssistant))
        /\ \A i \in 1..Len(Canonical) : Canonical[i].role \in {"user", "assistant"}
        /\ Len(SelectSeq(Canonical, IsToolResultMessage))
                <= Cardinality({i \in 1..Len(Payload) :
                        Payload[i].role = "tool" /\ IsSome(Payload[i].tool_call_id)})
        /\ Canonical = ConvertMessages(<<>>, SelectSeq(Payload, Contributes))
\* An assistant message, a tool message and a message of another role: the
\* assistant message and a user message made for the tool result.
C39_Witness ==
    /\ IsSome(converted)
    /\ Len(Payload) = 3
    /\ Payload[1].role = "assistant"
    /\ Payload[2].role = "tool" /\ IsSome(Payload[2].tool_call_id)
    /\ Payload[3].role = "developer"
    /\ Len(Canonical) = 2
    /\ Canonical[1].role = "assistant"
    /\ IsToolResultMessage(Canonical[2])

\* --------------------------------------------------------- claims on proxy URLs

\* A user name or password percent-decoded: its escapes replaced by their
\* characters, and left as written when they give no text.
PercentDecoded(s) ==
    IF \E i \in 1..Len(s) : s[i] = "%FF" THEN s
    ELSE [i \in 1..Len(s) |->
            CASE s[i] = "%40" -> "@" [] s[i] = "%5E" -> "^" [] OTHER -> s[i]]

\* The URL is scheme://[userinfo@]host:port[path][#fragment] with a scheme
\* of the four and a port that is written and is one.
WellFormedProxyUrl ==
    /\ raw_url.form = "hier"
    /\ raw_url.scheme \in {"http", "https", "socks5", "socks"}
    /\ IsSome(raw_url.port)
    /\ PortValue(raw_url.port[1]) <= 65535

\* What parse_proxy_url is to return for it.
ExpectedProxyConfig ==
    [ok |-> TRUE,
     url |-> <<raw_url.scheme, "://", raw_url.host, ":",
               PortText(PortValue(raw_url.port[1]))>>,
     username |-> IF IsSome(raw_url.userinfo)
                  THEN Some(PercentDecoded(raw_url.userinfo[1].username))
                  ELSE None,
     password |-> IF IsSome(raw_url.userinfo)
                        /\ IsSome(raw_url.userinfo[1].password)
                  THEN Some(PercentDecoded(raw_url.userinfo[1].password[1]))
                  ELSE None]

\* C32 as stated: a proxy URL with one of the four schemes, a host and a
\* port that is written, the default port of the scheme included, is parsed
\* to scheme://host:port without user info, path and fragment, with the user
\* name and the password percent-decoded and no password when only a user
\* name is written; a URL of another scheme or without port is rejected.
C32_WrittenPortAccepted ==
    IsSome(proxy_config) =>
        /\ WellFormedProxyUrl => proxy_config[1] = ExpectedProxyConfig
        /\ (raw_url.scheme \notin {"http", "https", "socks5", "socks"}
                \/ raw_url.port = None) => ~proxy_config[1].ok
====
